---- MODULE Spec2Model ----
(***************************************************************************)
(* State-machine model of the JSON template engine (JsonTemplates, parse,  *)
(* getValue, processNode) and of BotFrameworkAdapter, both of              *)
(* src/lib/intentRecognizer.d.ts, and of MiddlewareSet of                  *)
(* src/lib/middlewareSet.js.                                               *)
(*                                                                         *)
(* Text is a sequence of one-character strings.  A JavaScript value is a   *)
(* record [t, v]: t is the kind of value, v its content.  A completion     *)
(* that throws is the record Throw(e).                                     *)
(***************************************************************************)
EXTENDS Integers, Sequences, FiniteSets, TLC

VARIABLES
    templates,  \* this.templates: the registry, name -> entry
    source,     \* history: name -> what add/addFunction last received under it
    newest,     \* history: the latest registration, and whether it replaced an entry
    last,       \* the store operation that ran last, with its arguments and result
    arg,        \* input of the pure function under check
    ret,        \* its completion
    middleware, \* this._middleware of the MiddlewareSet: the plugins, in order
    run,        \* the asynchronous call in progress: its locals and where it stands
    log         \* what that call did so far, in order, as its environment saw it

vars == <<templates, source, newest, last, arg, ret, middleware, run, log>>

\* The variables of the template engine, and those of the middleware set and adapter.
engineVars == <<templates, source, newest, last, arg, ret>>
botVars == <<middleware, run, log>>

\* No call in progress.
NoRun == [op |-> "none"]

\* ------------------------------------------------------------------ bounds

\* Nested template calls before the engine's stack is taken to overflow.
MaxDepth == 5

\* ---------------------------------------------------------- JavaScript values

Undefined == [t |-> "undefined", v |-> <<>>]
Null      == [t |-> "null", v |-> <<>>]
Bool(b)   == [t |-> "boolean", v |-> b]
Num(n)    == [t |-> "number", v |-> n]
Str(s)    == [t |-> "string", v |-> s]
Arr(es)   == [t |-> "array", v |-> es]
\* An object is the sequence of its own members <<key, value>> in property order.
Obj(ms)   == [t |-> "object", v |-> ms]
\* A callable that is not a value of JSON.
Fn(id)    == [t |-> "function", v |-> id]
Throw(e)  == [t |-> "throw", v |-> e]

IsThrow(x) == x.t = "throw"

\* typeof x === 'object': true of null, arrays and objects.
TypeofObject(x) == x.t \in {"null", "array", "object"}

\* !x
Falsy(x) ==
    \/ x.t \in {"undefined", "null"}
    \/ x.t = "boolean" /\ ~x.v
    \/ x.t = "number" /\ x.v = 0
    \/ x.t = "string" /\ x.v = <<>>

\* ------------------------------------------------------------------- text

Digit == <<"0", "1", "2", "3", "4", "5", "6", "7", "8", "9">>

IsDigit(c) == \E d \in 1..10 : Digit[d] = c

DigitValue(c) == (CHOOSE d \in 1..10 : Digit[d] = c) - 1

RECURSIVE NumText(_)
NumText(n) == IF n < 10 THEN <<Digit[n + 1]>> ELSE NumText(n \div 10) \o <<Digit[(n % 10) + 1]>>

IsSpace(c) == c = " "

\* String.prototype.trim
RECURSIVE TrimLeft(_)
TrimLeft(s) == IF s # <<>> /\ IsSpace(Head(s)) THEN TrimLeft(Tail(s)) ELSE s

RECURSIVE TrimRight(_)
TrimRight(s) ==
    IF s # <<>> /\ IsSpace(s[Len(s)]) THEN TrimRight(SubSeq(s, 1, Len(s) - 1)) ELSE s

Trim(s) == TrimRight(TrimLeft(s))

\* String.prototype.split(sep) for a one-character separator.
RECURSIVE SplitFrom(_, _, _)
SplitFrom(s, sep, cur) ==
    IF s = <<>> THEN <<cur>>
    ELSE IF Head(s) = sep THEN <<cur>> \o SplitFrom(Tail(s), sep, <<>>)
    ELSE SplitFrom(Tail(s), sep, Append(cur, Head(s)))

Split(s, sep) == SplitFrom(s, sep, <<>>)

\* String.prototype.indexOf / lastIndexOf for one character, 0-based, -1 if absent.
IndexOf(s, c) ==
    IF \E i \in 1..Len(s) : s[i] = c
    THEN (CHOOSE i \in 1..Len(s) : s[i] = c /\ \A j \in 1..(i - 1) : s[j] # c) - 1
    ELSE -1

LastIndexOf(s, c) ==
    IF \E i \in 1..Len(s) : s[i] = c
    THEN (CHOOSE i \in 1..Len(s) : s[i] = c /\ \A j \in (i + 1)..Len(s) : s[j] # c) - 1
    ELSE -1

\* String.prototype.substr(start, length) for start >= 0: a length <= 0 gives ''.
Substr(s, start, length) ==
    IF length <= 0 \/ start >= Len(s) THEN <<>>
    ELSE SubSeq(s, start + 1, IF start + length > Len(s) THEN Len(s) ELSE start + length)

\* ------------------------------------------------------------ object members

HasOwn(o, key) == \E i \in 1..Len(o.v) : o.v[i][1] = key

OwnIndex(o, key) == CHOOSE i \in 1..Len(o.v) : o.v[i][1] = key

\* Members every plain object inherits from Object.prototype: of these the model
\* asks for toString alone.
ObjectPrototype == {<<"t", "o", "S", "t", "r", "i", "n", "g">>}

\* An array index written as a path segment.
IsIndex(key) == Len(key) = 1 /\ IsDigit(key[1])

Length == <<"l", "e", "n", "g", "t", "h">>

\* value[member] for a value with typeof 'object'; null[member] throws.
Member(value, member) ==
    CASE value.t = "null" -> Throw("TypeError")
      [] value.t = "object" ->
            IF HasOwn(value, member) THEN value.v[OwnIndex(value, member)][2]
            ELSE IF member \in ObjectPrototype THEN Fn("Object.prototype.toString")
            ELSE Undefined
      [] value.t = "array" ->
            IF IsIndex(member) /\ DigitValue(member[1]) < Len(value.v)
            THEN value.v[DigitValue(member[1]) + 1]
            ELSE IF member = Length THEN Num(Len(value.v))
            ELSE Undefined
      [] OTHER -> Undefined

\* --------------------------------------------------------------- getValue

RECURSIVE getValueParts(_, _)
getValueParts(value, parts) ==
    IF parts = <<>> THEN value
    ELSE IF TypeofObject(value)
    THEN LET next == Member(value, Trim(Head(parts)))
         IN  IF IsThrow(next) THEN next ELSE getValueParts(next, Tail(parts))
    ELSE Undefined

getValue(data, path) == getValueParts(data, Split(path, "."))

\* ---------------------------------------------------------- JSON.stringify

RECURSIVE QuoteChars(_)
QuoteChars(s) ==
    IF s = <<>> THEN <<>>
    ELSE (IF Head(s) \in {"\"", "\\"} THEN <<"\\", Head(s)>> ELSE <<Head(s)>>)
         \o QuoteChars(Tail(s))

Quote(s) == <<"\"">> \o QuoteChars(s) \o <<"\"">>

\* The text JSON.stringify gives (a sequence of characters); Undefined for a value
\* it gives no text for.
RECURSIVE StringifyText(_), StringifyElements(_, _), StringifyMembers(_, _)
StringifyText(x) ==
    CASE x.t = "null" -> <<"n", "u", "l", "l">>
      [] x.t = "boolean" -> IF x.v THEN <<"t", "r", "u", "e">> ELSE <<"f", "a", "l", "s", "e">>
      [] x.t = "number" -> NumText(x.v)
      [] x.t = "string" -> Quote(x.v)
      [] x.t = "array" -> <<"[">> \o StringifyElements(x.v, TRUE) \o <<"]">>
      [] x.t = "object" -> <<"{">> \o StringifyMembers(x.v, TRUE) \o <<"}">>

StringifyElements(es, first) ==
    IF es = <<>> THEN <<>>
    ELSE (IF first THEN <<>> ELSE <<",">>)
         \o (IF Head(es).t \in {"undefined", "function"}
             THEN <<"n", "u", "l", "l">> ELSE StringifyText(Head(es)))
         \o StringifyElements(Tail(es), FALSE)

StringifyMembers(ms, first) ==
    IF ms = <<>> THEN <<>>
    ELSE IF Head(ms)[2].t \in {"undefined", "function"} THEN StringifyMembers(Tail(ms), first)
    ELSE (IF first THEN <<>> ELSE <<",">>)
         \o Quote(Head(ms)[1]) \o <<":">> \o StringifyText(Head(ms)[2])
         \o StringifyMembers(Tail(ms), FALSE)

JSONstringify(x) ==
    IF x.t \in {"undefined", "function"} THEN Undefined ELSE Str(StringifyText(x))

\* obj += x, for obj a text and x a string or undefined.
PlusEq(obj, x) ==
    IF x.t = "string" THEN obj \o x.v ELSE obj \o <<"u", "n", "d", "e", "f", "i", "n", "e", "d">>

\* ----------------------------------------------------------------- parse

\* The registry a function-call fragment captured: the store's own table, by reference.
TemplatesRef == [ref |-> "this.templates", copy |-> <<>>]

Deref(ref, heap) == IF ref.ref = "this.templates" THEN heap ELSE ref.copy

\* A closure that captured no registry.
NoRef == [ref |-> "none", copy |-> <<>>]

\* A text closure that captured the text without the blanks around it.
appendTextTrimmed(text) ==
    [kind |-> "text", text |-> Trim(text), args |-> <<>>,
     templates |-> [ref |-> "none", copy |-> <<>>]]

\* The closures parse pushes: a fragment is what the closure captured.
appendText(text) == [kind |-> "text", text |-> text, args |-> <<>>, templates |-> NoRef]

appendProperty(path) == [kind |-> "property", text |-> path, args |-> <<>>, templates |-> NoRef]

\* appendFunction binding the registry's content when the template is compiled.
appendFunctionEarly(name, args, tmpl) ==
    [kind |-> "function", text |-> name, args |-> args,
     templates |-> [ref |-> "copy", copy |-> templates]]

appendFunction(name, args, tmpl) ==
    [kind |-> "function", text |-> name, args |-> args, templates |-> tmpl]

IsQuote(c) == c \in {"'", "\""}

\* json[i], 0-based.
At(json, i) == json[i + 1]

\* A closed path expression pushed as literal text.
closePathAsText(txt, tmpl) == appendText(txt)

\* The fragment a closed path expression is pushed as (the ParseState.path case).
closePath(txt, tmpl) ==
    LET trimmed == Trim(txt)
        open    == IndexOf(txt, "(")
        close   == LastIndexOf(txt, ")")
    IN  IF trimmed # <<>> /\ trimmed[Len(trimmed)] = ")"
        THEN IF open # 0 /\ close # 0
             THEN appendFunction(Substr(txt, 0, open),
                                 IF close > open + 1
                                 THEN Substr(txt, open + 1, close - (open + 1)) ELSE <<>>,
                                 tmpl)
             ELSE appendProperty(txt)
        ELSE appendProperty(txt)

\* One iteration of parse's loop at index i; next is the index the loop goes on from.
parseStep(json, i, st, tmpl) ==
    LET char == At(json, i)
        l    == Len(json)
    IN  CASE st.state = "none" ->
               IF IsQuote(char) /\ i < l - 1
               THEN IF At(json, i + 1) = "!"
                    THEN [st EXCEPT !.next = i + 2, !.state = "path",
                                    !.parsed = Append(st.parsed, appendText(st.txt)),
                                    !.endPath = char, !.nextState = "none", !.txt = <<>>]
                    ELSE [st EXCEPT !.next = i + 1, !.state = "string", !.endString = char,
                                    !.txt = Append(st.txt, char)]
               ELSE [st EXCEPT !.next = i + 1, !.txt = Append(st.txt, char)]
          [] st.state = "string" ->
               IF char = "$" /\ i < l - 1 /\ At(json, i + 1) = "{"
               THEN [st EXCEPT !.next = i + 2, !.state = "path",
                               !.parsed = Append(st.parsed, appendText(st.txt)),
                               !.endPath = "}", !.nextState = "string", !.txt = <<>>]
               ELSE IF char = st.endString /\ At(json, i - 1) # "\\"
               THEN [st EXCEPT !.next = i + 1, !.state = "none", !.txt = Append(st.txt, char)]
               ELSE [st EXCEPT !.next = i + 1, !.txt = Append(st.txt, char)]
          [] st.state = "path" ->
               IF char = st.endPath
               THEN [st EXCEPT !.next = i + 1, !.state = st.nextState,
                               !.parsed = Append(st.parsed, closePath(st.txt, tmpl)),
                               !.txt = <<>>]
               ELSE [st EXCEPT !.next = i + 1, !.txt = Append(st.txt, char)]

RECURSIVE parseLoop(_, _, _)
parseLoop(json, st, tmpl) ==
    IF st.next < Len(json) THEN parseLoop(json, parseStep(json, st.next, st, tmpl), tmpl)
    ELSE IF Len(st.txt) > 0 THEN Append(st.parsed, appendText(st.txt))
    ELSE st.parsed

parse(json, tmpl) ==
    parseLoop(json,
              [next |-> 0, parsed |-> <<>>, txt |-> <<>>, endString |-> "", endPath |-> "",
               nextState |-> "none", state |-> "none"],
              tmpl)

\* ------------------------------------------------- the closures, when called

\* templates[name]: an own entry, else what the table inherits, else undefined.
Lookup(tbl, name) ==
    IF name \in DOMAIN tbl THEN tbl[name]
    ELSE IF name \in ObjectPrototype THEN Fn("Object.prototype.toString")
    ELSE Undefined

\* A compiled template: the closure compile returns, holding the parsed fragments.
Compiled(parsed) == [t |-> "compiled", v |-> parsed]

ObjectObject == <<"[", "o", "b", "j", "e", "c", "t", " ", "O", "b", "j", "e", "c", "t", "]">>

ObjectUndefined ==
    <<"[", "o", "b", "j", "e", "c", "t", " ", "U", "n", "d", "e", "f", "i", "n", "e", "d", "]">>

\* The raw callables of the model: echo returns the args text it was given, seven
\* the number 7; toString is the one the registry inherits from Object.prototype.
callRaw(id, this, data, args) ==
    CASE id = "echo" -> args
      [] id = "seven" -> Num(7)
      [] id = "Object.prototype.toString" ->
            IF this = "undefined" THEN Str(ObjectUndefined) ELSE Str(ObjectObject)

\* The text closure.
textFn(text, data) == Str(text)

\* The property closure without its test for undefined and null.
propertyFnNoNullTest(path, data) ==
    LET result == getValue(data, path)
    IN  IF IsThrow(result) THEN result
        ELSE IF result.t = "string" THEN result
        ELSE JSONstringify(result)

\* The property closure of appendProperty.
propertyFn(path, data) ==
    LET result == getValue(data, path)
    IN  IF IsThrow(result) THEN result
        ELSE IF result.t = "string" THEN result
        ELSE IF result.t \in {"undefined", "null"} THEN Str(<<>>)
        ELSE JSONstringify(result)

RECURSIVE callEntry(_, _, _, _, _, _), fragmentFn(_, _, _, _), forEachFn(_, _, _, _, _),
          forEachChild(_, _, _, _, _, _, _), compiledFn(_, _, _, _, _),
          forEachChildNoComma(_, _, _, _, _, _, _)

\* entry(data, args) with the given this; calling what is no function throws, and a
\* chain of template calls deeper than the stack allows throws.
callEntry(entry, this, data, args, heap, fuel) ==
    CASE entry.t = "compiled" ->
            IF fuel = 0 THEN Throw("RangeError")
            ELSE compiledFn(entry.v, data, args, heap, fuel - 1)
      [] entry.t = "function" -> callRaw(entry.v, this, data, args)
      [] OTHER -> Throw("TypeError")

\* The function-call closure of appendFunction: templates[name](data, args).
functionFn(frag, data, heap, fuel) ==
    LET result == callEntry(Lookup(Deref(frag.templates, heap), frag.text), "templates",
                            data, Str(frag.args), heap, fuel)
    IN  IF IsThrow(result) THEN result
        ELSE IF result.t = "string" THEN result
        ELSE JSONstringify(result)

fragmentFn(frag, data, heap, fuel) ==
    CASE frag.kind = "text" -> textFn(frag.text, data)
      [] frag.kind = "property" -> propertyFn(frag.text, data)
      [] frag.kind = "function" -> functionFn(frag, data, heap, fuel)

\* parsed.forEach((fn) => obj += fn(x)): the text obj grown, or what was thrown.
forEachFn(parsed, x, obj, heap, fuel) ==
    IF parsed = <<>> THEN Str(obj)
    ELSE LET out == fragmentFn(Head(parsed), x, heap, fuel)
         IN  IF IsThrow(out) THEN out
             ELSE forEachFn(Tail(parsed), x, PlusEq(obj, out), heap, fuel)

\* The forEach over the children with the connector left empty.
forEachChildNoComma(parsed, children, obj, connector, heap, fuel, i) ==
    IF i > Len(children) THEN Str(obj)
    ELSE LET out == forEachFn(parsed, children[i], obj \o connector, heap, fuel)
         IN  IF IsThrow(out) THEN out
             ELSE forEachChildNoComma(parsed, children, out.v, <<>>, heap, fuel, i + 1)

\* value.forEach((child) => ...) of the array branch.
forEachChild(parsed, children, obj, connector, heap, fuel, i) ==
    IF i > Len(children) THEN Str(obj)
    ELSE LET out == forEachFn(parsed, children[i], obj \o connector, heap, fuel)
         IN  IF IsThrow(out) THEN out
             ELSE forEachChild(parsed, children, out.v, <<",">>, heap, fuel, i + 1)

\* The closure compile returns: (data, path) => text.
compiledFn(parsed, data, path, heap, fuel) ==
    IF ~Falsy(path)
    THEN LET value == getValue(data, path.v)
         IN  IF IsThrow(value) THEN value
             ELSE IF value.t = "array"
             THEN LET out == forEachChild(parsed, value.v, <<"[">>, <<>>, heap, fuel, 1)
                  IN  IF IsThrow(out) THEN out ELSE Str(out.v \o <<"]">>)
             ELSE IF TypeofObject(value) THEN forEachFn(parsed, value, <<>>, heap, fuel)
             ELSE Str(<<>>)
    ELSE forEachFn(parsed, data, <<>>, heap, fuel)

\* JsonTemplates.compile(json, templates)
compile(json, tmpl) ==
    Compiled(parse(IF json.t # "string" THEN JSONstringify(json).v ELSE json.v, tmpl))

\* -------------------------------------------------------------- JSON.parse
\* The grammar of JSON over the model's alphabet: objects, arrays, strings with the
\* escapes \" \\ \/ \b \f \n \r \t, unsigned integers, true, false, null, and spaces
\* between tokens.  A parser's result is [ok, v, i]: whether it matched, the value,
\* and the 1-based index after it.

SyntaxError == [ok |-> FALSE, v |-> Undefined, i |-> 0]

Parsed(value, i) == [ok |-> TRUE, v |-> value, i |-> i]

RECURSIVE SkipSpace(_, _)
SkipSpace(s, i) == IF i <= Len(s) /\ IsSpace(s[i]) THEN SkipSpace(s, i + 1) ELSE i

\* Whether s holds the characters of word from index i on.
StartsAt(s, i, word) == i + Len(word) - 1 <= Len(s) /\ SubSeq(s, i, i + Len(word) - 1) = word

\* The character an escape \c stands for; control characters are named tokens.
Unescape(c) ==
    CASE c \in {"\"", "\\", "/"} -> c
      [] c = "b" -> "<BS>"
      [] c = "f" -> "<FF>"
      [] c = "n" -> "<LF>"
      [] c = "r" -> "<CR>"
      [] c = "t" -> "<TAB>"
      [] OTHER -> ""

\* The characters of a string literal from index i (after the opening quote) on.
RECURSIVE parseChars(_, _, _)
parseChars(s, i, acc) ==
    IF i > Len(s) THEN SyntaxError
    ELSE IF s[i] = "\"" THEN Parsed(acc, i + 1)
    ELSE IF s[i] = "\\"
    THEN IF i + 1 > Len(s) \/ Unescape(s[i + 1]) = "" THEN SyntaxError
         ELSE parseChars(s, i + 2, Append(acc, Unescape(s[i + 1])))
    ELSE parseChars(s, i + 1, Append(acc, s[i]))

RECURSIVE parseDigits(_, _, _)
parseDigits(s, i, n) ==
    IF i <= Len(s) /\ IsDigit(s[i]) THEN parseDigits(s, i + 1, 10 * n + DigitValue(s[i]))
    ELSE Parsed(Num(n), i)

\* obj[key] = value of JSON.parse: a repeated key keeps its place and takes the value.
SetMember(ms, key, value) ==
    IF \E k \in 1..Len(ms) : ms[k][1] = key
    THEN [k \in 1..Len(ms) |-> IF ms[k][1] = key THEN <<key, value>> ELSE ms[k]]
    ELSE Append(ms, <<key, value>>)

RECURSIVE parseValue(_, _), parseElements(_, _, _), parseMembers(_, _, _)
parseValue(s, i0) ==
    LET i == SkipSpace(s, i0)
    IN  IF i > Len(s) THEN SyntaxError
        ELSE CASE s[i] = "{" ->
                    IF SkipSpace(s, i + 1) <= Len(s) /\ s[SkipSpace(s, i + 1)] = "}"
                    THEN Parsed(Obj(<<>>), SkipSpace(s, i + 1) + 1)
                    ELSE parseMembers(s, i + 1, <<>>)
               [] s[i] = "[" ->
                    IF SkipSpace(s, i + 1) <= Len(s) /\ s[SkipSpace(s, i + 1)] = "]"
                    THEN Parsed(Arr(<<>>), SkipSpace(s, i + 1) + 1)
                    ELSE parseElements(s, i + 1, <<>>)
               [] s[i] = "\"" ->
                    LET r == parseChars(s, i + 1, <<>>)
                    IN  IF r.ok THEN Parsed(Str(r.v), r.i) ELSE SyntaxError
               [] IsDigit(s[i]) ->
                    IF s[i] = "0" /\ i + 1 <= Len(s) /\ IsDigit(s[i + 1]) THEN SyntaxError
                    ELSE parseDigits(s, i, 0)
               [] StartsAt(s, i, <<"t", "r", "u", "e">>) -> Parsed(Bool(TRUE), i + 4)
               [] StartsAt(s, i, <<"f", "a", "l", "s", "e">>) -> Parsed(Bool(FALSE), i + 5)
               [] StartsAt(s, i, <<"n", "u", "l", "l">>) -> Parsed(Null, i + 4)
               [] OTHER -> SyntaxError

\* value (, value)* ] from index i0 on.
parseElements(s, i0, acc) ==
    LET r == parseValue(s, i0)
        j == SkipSpace(s, r.i)
    IN  IF ~r.ok \/ j > Len(s) THEN SyntaxError
        ELSE IF s[j] = "]" THEN Parsed(Arr(Append(acc, r.v)), j + 1)
        ELSE IF s[j] = "," THEN parseElements(s, j + 1, Append(acc, r.v))
        ELSE SyntaxError

\* "key" : value (, "key" : value)* } from index i0 on.
parseMembers(s, i0, acc) ==
    LET i == SkipSpace(s, i0)
        k == IF i <= Len(s) /\ s[i] = "\"" THEN parseChars(s, i + 1, <<>>) ELSE SyntaxError
        c == SkipSpace(s, k.i)
        r == IF k.ok /\ c <= Len(s) /\ s[c] = ":" THEN parseValue(s, c + 1) ELSE SyntaxError
        j == SkipSpace(s, r.i)
    IN  IF ~r.ok \/ j > Len(s) THEN SyntaxError
        ELSE IF s[j] = "}" THEN Parsed(Obj(SetMember(acc, k.v, r.v)), j + 1)
        ELSE IF s[j] = "," THEN parseMembers(s, j + 1, SetMember(acc, k.v, r.v))
        ELSE SyntaxError

\* JSON.parse(text): the value, or a thrown SyntaxError.
JSONparse(text) ==
    LET r == parseValue(text, 1)
    IN  IF r.ok /\ SkipSpace(text, r.i) > Len(text) THEN r.v ELSE Throw("SyntaxError")

\* ------------------------------------------------------------- processNode
\* processNode mutates the tree it is given and returns a boolean.  Its model returns
\* [ok, threw, node, prune]: the boolean, whether it threw instead, the node as the
\* call left it, and the caller's prune object as the call left it.

PruneKey == <<"@", "p", "r", "u", "n", "e">>
IfKey == <<"@", "i", "f">>
NullMembers == <<"n", "u", "l", "l", "M", "e", "m", "b", "e", "r", "s">>
EmptyStrings == <<"e", "m", "p", "t", "y", "S", "t", "r", "i", "n", "g", "s">>
EmptyArrays == <<"e", "m", "p", "t", "y", "A", "r", "r", "a", "y", "s">>

\* prune.<option>, as a condition.
Option(prune, name) == ~Falsy(Member(prune, name))

\* Object.assign(target, src) on the members of target: only an object has own
\* members with names; null, undefined and scalars give none.
RECURSIVE AssignMembers(_, _)
AssignMembers(target, ms) ==
    IF ms = <<>> THEN target
    ELSE AssignMembers(SetMember(target, Head(ms)[1], Head(ms)[2]), Tail(ms))

ObjectAssign(target, src) ==
    IF src.t = "object" THEN Obj(AssignMembers(target.v, src.v)) ELSE target

\* The @prune value dropped: the node goes on under the options it inherited.
mergePruneKeep(prune, value) == [object |-> prune, fresh |-> TRUE]

\* Object.assign(prune, value): the merge written into the caller's own object.
mergePruneInPlace(prune, value) ==
    [object |-> ObjectAssign(ObjectAssign(Obj(<<>>), prune), value), fresh |-> FALSE]

\* prune = Object.assign({}, prune, value): the options the rest of the node runs
\* under, in an object of their own (fresh), the caller's object left as it was.
mergePrune(prune, value) ==
    [object |-> ObjectAssign(ObjectAssign(Obj(<<>>), prune), value), fresh |-> TRUE]

Done(ok, node, prune) == [ok |-> ok, threw |-> FALSE, node |-> node, prune |-> prune]

Thrown(node, prune) == [ok |-> FALSE, threw |-> TRUE, node |-> node, prune |-> prune]

\* value is undefined or null
IsNullish(value) == value.t \in {"undefined", "null"}

\* node.splice(i, 1) for the 1-based index i.
Splice(es, i) == SubSeq(es, 1, i - 1) \o SubSeq(es, i + 1, Len(es))

\* The loop over conditions: FALSE at the first one that resolves falsy.
RECURSIVE checkConditions(_, _, _, _)
checkConditions(node, conditions, i, prune) ==
    IF i > Len(conditions) THEN Done(TRUE, node, prune)
    ELSE IF conditions[i].t # "string" THEN Thrown(node, prune)
    ELSE LET value == getValue(node, conditions[i].v)
         IN  IF IsThrow(value) THEN Thrown(node, prune)
             ELSE IF Falsy(value) THEN Done(FALSE, node, prune)
             ELSE checkConditions(node, conditions, i + 1, prune)

RECURSIVE processNode(_, _), arrayLoop(_, _, _), objectLoop(_, _, _, _, _, _)

\* The array branch without its test for an array left empty.
RECURSIVE arrayLoopKeepEmpty(_, _, _)
arrayLoopKeepEmpty(es, i, prune) ==
    IF i < 1 THEN Done(TRUE, Arr(es), prune)
    ELSE IF Option(prune, NullMembers) /\ IsNullish(es[i])
    THEN arrayLoopKeepEmpty(Splice(es, i), i - 1, prune)
    ELSE LET r == processNode(es[i], prune)
         IN  IF r.threw THEN Thrown(Arr([es EXCEPT ![i] = r.node]), r.prune)
             ELSE IF ~r.ok THEN arrayLoopKeepEmpty(Splice(es, i), i - 1, r.prune)
             ELSE arrayLoopKeepEmpty([es EXCEPT ![i] = r.node], i - 1, r.prune)

\* The array branch passing over the element before one it spliced out.
RECURSIVE arrayLoopSkip(_, _, _)
arrayLoopSkip(es, i, prune) ==
    IF i < 1
    THEN IF Option(prune, EmptyArrays) /\ Len(es) = 0
         THEN Done(FALSE, Arr(es), prune) ELSE Done(TRUE, Arr(es), prune)
    ELSE IF Option(prune, NullMembers) /\ IsNullish(es[i])
    THEN arrayLoopSkip(Splice(es, i), i - 2, prune)
    ELSE LET r == processNode(es[i], prune)
         IN  IF r.threw THEN Thrown(Arr([es EXCEPT ![i] = r.node]), r.prune)
             ELSE IF ~r.ok THEN arrayLoopSkip(Splice(es, i), i - 2, r.prune)
             ELSE arrayLoopSkip([es EXCEPT ![i] = r.node], i - 1, r.prune)

\* The array branch keeping the elements whose own processing failed.
RECURSIVE arrayLoopKeepFailed(_, _, _)
arrayLoopKeepFailed(es, i, prune) ==
    IF i < 1
    THEN IF Option(prune, EmptyArrays) /\ Len(es) = 0
         THEN Done(FALSE, Arr(es), prune) ELSE Done(TRUE, Arr(es), prune)
    ELSE IF Option(prune, NullMembers) /\ IsNullish(es[i])
    THEN arrayLoopKeepFailed(Splice(es, i), i - 1, prune)
    ELSE LET r == processNode(es[i], prune)
         IN  IF r.threw THEN Thrown(Arr([es EXCEPT ![i] = r.node]), r.prune)
             ELSE arrayLoopKeepFailed([es EXCEPT ![i] = r.node], i - 1, r.prune)

\* The array branch applying the emptyStrings test of the object branch to its elements.
RECURSIVE arrayLoopDropBlank(_, _, _)
arrayLoopDropBlank(es, i, prune) ==
    IF i < 1
    THEN IF Option(prune, EmptyArrays) /\ Len(es) = 0
         THEN Done(FALSE, Arr(es), prune) ELSE Done(TRUE, Arr(es), prune)
    ELSE IF Option(prune, NullMembers) /\ IsNullish(es[i])
    THEN arrayLoopDropBlank(Splice(es, i), i - 1, prune)
    ELSE IF Option(prune, EmptyStrings) /\ es[i].t = "string" /\ Len(Trim(es[i].v)) = 0
    THEN arrayLoopDropBlank(Splice(es, i), i - 1, prune)
    ELSE LET r == processNode(es[i], prune)
         IN  IF r.threw THEN Thrown(Arr([es EXCEPT ![i] = r.node]), r.prune)
             ELSE IF ~r.ok THEN arrayLoopDropBlank(Splice(es, i), i - 1, r.prune)
             ELSE arrayLoopDropBlank([es EXCEPT ![i] = r.node], i - 1, r.prune)

\* for (let i = node.length - 1; i >= 0; i--), at the 1-based index i.
arrayLoop(es, i, prune) ==
    IF i < 1
    THEN IF Option(prune, EmptyArrays) /\ Len(es) = 0
         THEN Done(FALSE, Arr(es), prune) ELSE Done(TRUE, Arr(es), prune)
    ELSE IF Option(prune, NullMembers) /\ IsNullish(es[i])
    THEN arrayLoop(Splice(es, i), i - 1, prune)
    ELSE LET r == processNode(es[i], prune)
         IN  IF r.threw THEN Thrown(Arr([es EXCEPT ![i] = r.node]), r.prune)
             ELSE IF ~r.ok THEN arrayLoop(Splice(es, i), i - 1, r.prune)
             ELSE arrayLoop([es EXCEPT ![i] = r.node], i - 1, r.prune)

\* The object branch with each @if evaluated where the for-in loop meets it, against the
\* node as it is then.
RECURSIVE objectLoopEager(_, _, _, _, _, _)
objectLoopEager(todo, kept, conditions, prune, caller, shared) ==
    IF todo = <<>>
    THEN Done(TRUE, Obj(kept), IF shared THEN prune ELSE caller)
    ELSE LET key   == Head(todo)[1]
             value == Head(todo)[2]
             rest  == Tail(todo)
         IN  IF key = PruneKey
             THEN objectLoopEager(rest, kept, conditions, mergePrune(prune, value).object,
                                  IF shared THEN prune ELSE caller, FALSE)
             ELSE IF key = IfKey
             THEN LET c == checkConditions(Obj(kept \o rest), <<value>>, 1, caller)
                  IN  IF c.threw \/ ~c.ok THEN c
                      ELSE objectLoopEager(rest, kept, conditions, prune, caller, shared)
             ELSE IF Option(prune, NullMembers) /\ IsNullish(value)
             THEN objectLoopEager(rest, kept, conditions, prune, caller, shared)
             ELSE IF Option(prune, EmptyStrings) /\ value.t = "string" /\ Len(Trim(value.v)) = 0
             THEN objectLoopEager(rest, kept, conditions, prune, caller, shared)
             ELSE IF Option(prune, EmptyArrays) /\ value.t = "array" /\ Len(value.v) = 0
             THEN objectLoopEager(rest, kept, conditions, prune, caller, shared)
             ELSE LET r == processNode(value, prune)
                  IN  IF r.threw THEN Thrown(Obj(Append(kept, <<key, r.node>>) \o rest), caller)
                      ELSE IF ~r.ok
                      THEN objectLoopEager(rest, kept, conditions, prune, caller, shared)
                      ELSE objectLoopEager(rest, Append(kept, <<key, r.node>>), conditions,
                                           prune, caller, shared)

\* for (const key in node): todo are the members still to visit, kept those visited
\* and not deleted, prune the options in force, caller the caller's prune object, and
\* shared whether prune still is that object.
objectLoop(todo, kept, conditions, prune, caller, shared) ==
    IF todo = <<>>
    THEN checkConditions(Obj(kept), conditions, 1, IF shared THEN prune ELSE caller)
    ELSE LET key   == Head(todo)[1]
             value == Head(todo)[2]
             rest  == Tail(todo)
         IN  IF key = PruneKey
             THEN LET m == mergePrune(prune, value)
                  IN  objectLoop(rest, kept, conditions, m.object,
                                 IF ~shared THEN caller
                                 ELSE IF m.fresh THEN prune ELSE m.object,
                                 shared /\ ~m.fresh)
             ELSE IF key = IfKey
             THEN objectLoop(rest, kept, Append(conditions, value), prune, caller, shared)
             ELSE IF Option(prune, NullMembers) /\ IsNullish(value)
             THEN objectLoop(rest, kept, conditions, prune, caller, shared)
             ELSE IF Option(prune, EmptyStrings) /\ value.t = "string" /\ Len(Trim(value.v)) = 0
             THEN objectLoop(rest, kept, conditions, prune, caller, shared)
             ELSE IF Option(prune, EmptyArrays) /\ value.t = "array" /\ Len(value.v) = 0
             THEN objectLoop(rest, kept, conditions, prune, caller, shared)
             ELSE LET r == processNode(value, prune)
                  IN  IF r.threw
                      THEN Thrown(Obj(Append(kept, <<key, r.node>>) \o rest),
                                  IF shared THEN r.prune ELSE caller)
                      ELSE IF ~r.ok
                      THEN objectLoop(rest, kept, conditions, r.prune, caller, shared)
                      ELSE objectLoop(rest, Append(kept, <<key, r.node>>), conditions,
                                      r.prune, caller, shared)

\* processNode taking an array for a scalar: its elements are not visited.
processNodeObjectsOnly(node, prune) ==
    IF node.t = "object" THEN objectLoop(node.v, <<>>, <<>>, prune, prune, TRUE)
    ELSE Done(TRUE, node, prune)

processNode(node, prune) ==
    IF node.t = "array" THEN arrayLoop(node.v, Len(node.v), prune)
    ELSE IF node.t = "object" THEN objectLoop(node.v, <<>>, <<>>, prune, prune, TRUE)
    ELSE Done(TRUE, node, prune)

\* JsonTemplates.postProcess(object)
postProcess(object) ==
    LET r == processNode(object, Obj(<<>>))
    IN  IF r.threw THEN Throw("TypeError")
        ELSE IF ~r.ok THEN Undefined
        ELSE r.node

\* ------------------------------------------------------- the template store

\* String(x) of a rendered result handed to JSON.parse (a string, or the number a raw
\* callable returned).
ToText(x) == IF x.t = "number" THEN NumText(x.v) ELSE x.v

\* this.templates[name] = entry
Put(tbl, name, entry) ==
    [n \in DOMAIN tbl \cup {name} |-> IF n = name THEN entry ELSE tbl[n]]

\* add keeping the template already stored under the name.
addEntryKeep(tbl, name, json) ==
    IF name \in DOMAIN tbl THEN tbl ELSE Put(tbl, name, compile(json, TemplatesRef))

\* JsonTemplates.add: the entry stored under name.
addEntry(tbl, name, json) == Put(tbl, name, compile(json, TemplatesRef))

\* JsonTemplates.render(name, data)
render(tbl, name, data) ==
    LET template == Lookup(tbl, name)
    IN  IF Falsy(template) THEN Undefined
        ELSE callEntry(template, "undefined", data, Undefined, tbl, MaxDepth)

\* renderAsJSON from `let obj = JSON.parse(json)` on, when the parse did not throw.
processParsed(obj, flag) ==
    IF IsThrow(obj) THEN obj
    ELSE IF ~Falsy(flag) \/ flag.t = "undefined" THEN postProcess(obj)
    ELSE obj

\* renderAsJSON testing for undefined alone (json === undefined).
parseRenderedUndefinedOnly(json, flag) ==
    IF IsThrow(json) THEN json
    ELSE IF json.t = "undefined" THEN Null
    ELSE processParsed(JSONparse(ToText(json)), flag)

\* renderAsJSON from `if (!json)` on, json being what render gave.
parseRendered(json, flag) ==
    IF IsThrow(json) THEN json
    ELSE IF Falsy(json) THEN Null
    ELSE processParsed(JSONparse(ToText(json)), flag)

\* JsonTemplates.renderAsJSON(name, data, postProcess)
renderAsJSON(tbl, name, data, flag) == parseRendered(render(tbl, name, data), flag)

\* renderTemplate from `if (result)` on: the value the returned promise resolves
\* with, or what JSON.parse throws.
resolveRendered(result) ==
    IF IsThrow(result) THEN result
    ELSE IF ~Falsy(result) THEN JSONparse(ToText(result))
    ELSE Undefined

\* JsonTemplates.renderTemplate(context, language, templateId, data)
renderTemplate(tbl, language, templateId, data) ==
    resolveRendered(render(tbl, language \o <<"-">> \o templateId, data))

\* The objects a call of render or renderAsJSON can reach: the caller's data, and the
\* tree JSON.parse builds (undefined while there is none).  The closures only read the
\* data (getValue and JSON.stringify assign to locals); postProcess writes, into the
\* object it is handed.
Heap(data, parsed) == [data |-> data, parsed |-> parsed]

\* postProcess handed the caller's data instead of the parsed tree.
postProcessData(heap, ref) ==
    [heap EXCEPT !.data = processNode(heap.data, Obj(<<>>)).node]

\* this.postProcess(obj), as a write: the object under ref as processNode leaves it.
postProcessAt(heap, ref) ==
    [heap EXCEPT ![ref] = processNode(heap[ref], Obj(<<>>)).node]

\* renderAsJSON from `let obj = JSON.parse(json)` on, as writes.
parsedEffect(heap, flag) ==
    IF IsThrow(heap.parsed) THEN heap
    ELSE IF ~Falsy(flag) \/ flag.t = "undefined" THEN postProcessAt(heap, "parsed")
    ELSE heap

\* renderAsJSON from `if (!json)` on, as writes.
renderedEffect(json, data, flag) ==
    IF IsThrow(json) \/ Falsy(json) THEN Heap(data, Undefined)
    ELSE parsedEffect(Heap(data, JSONparse(ToText(json))), flag)

\* The objects as renderAsJSON(name, data, postProcess) leaves them.
renderAsJSONEffect(tbl, name, data, flag) == renderedEffect(render(tbl, name, data), data, flag)

\* The objects as render(name, data) leaves them: it builds no tree and writes nothing.
renderEffect(tbl, name, data) == Heap(data, Undefined)

\* ------------------------------------------------------------ model inputs

NameT == <<"e", "-", "t">>
NameF == <<"f">>
NameZ == <<"z">>
ToStringName == <<"t", "o", "S", "t", "r", "i", "n", "g">>

\* Names add and addFunction are given.
Names == {NameT, NameF}

\* Names render is asked for: those, one never registered, and one never registered
\* that Object.prototype has.
RenderNames == Names \cup {NameZ, ToStringName}

TWholeBang == <<"'", "!", "x", "!", "'">>
TWhole == <<"'", "!", "x", "'">>
TEmbedded == <<"{", "\"", "a", "\"", ":", "\"", "$", "{", "x", "}", "\"", "}">>
TCall == <<"'", "!", "f", "(", ")", "'">>
TCallInherited == <<"'", "!", "t", "o", "S", "t", "r", "i", "n", "g", "(", ")", "'">>

Texts == {TWholeBang, TWhole, TEmbedded, TCall, TCallInherited}

RawFns == {"seven", "echo"}

KeyX == <<"x">>
KeyY == <<"y">>
DataNumber == Obj(<< <<KeyX, Num(5)>> >>)
DataObject == Obj(<< <<KeyX, Obj(<< <<KeyY, Num(1)>> >>)>> >>)
DataString == Obj(<< <<KeyX, Str(<<"h", "i">>)>> >>)
DataNull == Obj(<< <<KeyX, Null>> >>)
DataEmpty == Obj(<<>>)

Data == {DataNumber, DataObject, DataString, DataNull, DataEmpty}

Flags == {Bool(TRUE), Bool(FALSE), Undefined}

Languages == {<<"e">>}
TemplateIds == {<<"t">>, <<"z">>}

NotCalled == [t |-> "none", v |-> <<>>]

Op(op, name, data, flag, result) ==
    [op |-> op, name |-> name, data |-> data, flag |-> flag, result |-> result]

\* ---------------------------------------------------------------- actions

Init ==
    /\ templates = <<>>
    /\ source = <<>>
    /\ newest = [name |-> <<>>, replaced |-> FALSE]
    /\ last = Op("new", <<>>, Undefined, Undefined, Undefined)
    /\ arg = NotCalled
    /\ ret = NotCalled
    /\ middleware = <<>>
    /\ run = NoRun
    /\ log = <<>>

\* The store is synchronous: a call runs to completion, and the caller has its result
\* (last) before the next call is made.
Queries == {"render", "renderAsJSON", "renderTemplate"}

Ready == last.op \notin Queries

Add(name, json) ==
    /\ Ready
    /\ templates' = addEntry(templates, name, json)
    /\ source' = Put(source, name, json)
    /\ newest' = [name |-> name, replaced |-> name \in DOMAIN templates]
    /\ last' = Op("add", name, json, Undefined, Undefined)
    /\ UNCHANGED <<arg, ret>>
    /\ UNCHANGED botVars

AddFunction(name, fn) ==
    /\ Ready
    /\ templates' = Put(templates, name, fn)
    /\ source' = Put(source, name, fn)
    /\ newest' = [name |-> name, replaced |-> name \in DOMAIN templates]
    /\ last' = Op("addFunction", name, fn, Undefined, Undefined)
    /\ UNCHANGED <<arg, ret>>
    /\ UNCHANGED botVars

Render(name, data) ==
    /\ Ready
    /\ last' = Op("render", name, data, Undefined, render(templates, name, data))
    /\ UNCHANGED <<templates, source, newest, arg, ret>>
    /\ UNCHANGED botVars

RenderAsJSON(name, data, flag) ==
    /\ Ready
    /\ last' = Op("renderAsJSON", name, data, flag, renderAsJSON(templates, name, data, flag))
    /\ UNCHANGED <<templates, source, newest, arg, ret>>
    /\ UNCHANGED botVars

RenderTemplate(language, templateId, data) ==
    /\ Ready
    /\ last' = Op("renderTemplate", language \o <<"-">> \o templateId, data, Undefined,
                  renderTemplate(templates, language, templateId, data))
    /\ UNCHANGED <<templates, source, newest, arg, ret>>
    /\ UNCHANGED botVars

\* The caller takes the result of the call that ran last.
Return ==
    /\ ~Ready
    /\ last' = Op("returned", <<>>, Undefined, Undefined, Undefined)
    /\ UNCHANGED <<templates, source, newest, arg, ret>>
    /\ UNCHANGED botVars

NextStore ==
    \/ \E name \in Names, text \in Texts : Add(name, Str(text))
    \/ \E name \in Names, id \in RawFns : AddFunction(name, Fn(id))
    \/ \E name \in RenderNames, data \in Data : Render(name, data)
    \/ \E name \in RenderNames, data \in Data, flag \in Flags : RenderAsJSON(name, data, flag)
    \/ \E language \in Languages, id \in TemplateIds, data \in Data :
          RenderTemplate(language, id, data)
    \/ Return

Spec == Init /\ [][NextStore]_vars

\* ------------------------------------------------- getValue, on its own

PathData ==
    Data \cup {Null, Undefined, Num(5), Str(<<"h", "i">>), Arr(<<Num(1), DataNull>>)}

Paths ==
    { <<"x">>, <<"x", ".", "y">>, <<"x", ".", "y", ".", "z">>, <<" ", "x", " ", ".", " ", "y">>,
      <<"y">>, <<"0">>, <<"1", ".", "x", ".", "y">>, Length, ToStringName, <<>> }

InitPath ==
    /\ templates = <<>>
    /\ source = <<>>
    /\ newest = [name |-> <<>>, replaced |-> FALSE]
    /\ last = Op("new", <<>>, Undefined, Undefined, Undefined)
    /\ arg \in {[data |-> d, path |-> p] : d \in PathData, p \in Paths}
    /\ ret = NotCalled
    /\ middleware = <<>>
    /\ run = NoRun
    /\ log = <<>>

GetValue ==
    /\ ret = NotCalled
    /\ ret' = getValue(arg.data, arg.path)
    /\ UNCHANGED <<templates, source, newest, last, arg>>
    /\ UNCHANGED botVars

SpecPath == InitPath /\ [][GetValue]_vars

\* ---------------------------------------------- postProcess, on its own

KeyA == <<"a">>

PruneNulls == Obj(<< <<NullMembers, Bool(TRUE)>>, <<EmptyArrays, Bool(TRUE)>> >>)
KeepNulls == Obj(<< <<NullMembers, Bool(FALSE)>>, <<EmptyStrings, Bool(TRUE)>> >>)

PruneValues == {PruneNulls, KeepNulls}

Leaves == {Null, Str(<<>>), Arr(<<>>), Num(1)}

\* What a member or an element of the root holds: a leaf, an array that filtering
\* empties, or an object with at most one @prune before or after its member.
Children ==
    Leaves \cup {Arr(<<Null>>)}
    \cup {Obj(<< <<KeyA, l>> >>) : l \in Leaves}
    \cup {Obj(<< <<PruneKey, p>>, <<KeyA, l>> >>) : p \in PruneValues, l \in Leaves}
    \cup {Obj(<< <<KeyA, l>>, <<PruneKey, p>> >>) : p \in PruneValues, l \in Leaves}

\* The root: two children as the members x and y of an object, with no @prune or with
\* one before, between or after them, or as the elements of an array.
Trees ==
    {Obj(<< <<KeyX, c>>, <<KeyY, d>> >>) : c \in Children, d \in Children}
    \cup {Arr(<<c, d>>) : c \in Children, d \in Children}
    \cup {Obj(<< <<PruneKey, p>>, <<KeyX, c>>, <<KeyY, d>> >>) :
             p \in PruneValues, c \in Children, d \in Children}
    \cup {Obj(<< <<KeyX, c>>, <<PruneKey, p>>, <<KeyY, d>> >>) :
             p \in PruneValues, c \in Children, d \in Children}
    \cup {Obj(<< <<KeyX, c>>, <<KeyY, d>>, <<PruneKey, p>> >>) :
             p \in PruneValues, c \in Children, d \in Children}

InitPost ==
    /\ templates = <<>>
    /\ source = <<>>
    /\ newest = [name |-> <<>>, replaced |-> FALSE]
    /\ last = Op("new", <<>>, Undefined, Undefined, Undefined)
    /\ arg \in Trees
    /\ ret = NotCalled
    /\ middleware = <<>>
    /\ run = NoRun
    /\ log = <<>>

PostProcess ==
    /\ ret = NotCalled
    /\ ret' = postProcess(arg)
    /\ UNCHANGED <<templates, source, newest, last, arg>>
    /\ UNCHANGED botVars

SpecPost == InitPost /\ [][PostProcess]_vars

\* ------------------------------------- postProcess of trees with @if, twice

PathXY == <<"x", ".", "y">>

\* The paths an @if names: a member, a member nobody has, a member of a member.
CondPaths == {KeyX, KeyY, PathXY}

\* Values of the member x: null, two truthy values pruning removes (an empty array, a
\* blank string), and a truthy value pruning keeps.
CondLeaves == {Null, Arr(<<>>), Str(<<" ">>), Num(1)}

\* An object with an @if before or after its member x.
BareNodes ==
    {Obj(<< <<IfKey, Str(p)>>, <<KeyX, l>> >>) : p \in CondPaths, l \in CondLeaves}
    \cup {Obj(<< <<KeyX, l>>, <<IfKey, Str(p)>> >>) : p \in CondPaths, l \in CondLeaves}
    \cup {Obj(<< <<IfKey, Str(PathXY)>>, <<KeyX, Obj(<< <<KeyY, l>> >>)>> >>) : l \in CondLeaves}

\* The same with no @prune, or with one as the first or the last key.
CondNodes ==
    BareNodes
    \cup {Obj(<< <<PruneKey, p>> >> \o n.v) : p \in PruneValues, n \in BareNodes}
    \cup {Obj(n.v \o << <<PruneKey, p>> >>) : p \in PruneValues, n \in BareNodes}

CondChildren ==
    CondLeaves \cup CondNodes
    \cup {Arr(<<n>>) : n \in CondNodes}
    \cup {Arr(<<n, Null>>) : n \in CondNodes}
    \cup {Arr(<<Null>>), Arr(<<Arr(<<Null>>)>>)}

\* The root: a node with an @if, or a child as the member a of an object (with no @prune
\* or one before it) or as the element of an array.
CondTrees ==
    CondNodes
    \cup {Obj(<< <<KeyA, c>> >>) : c \in CondChildren}
    \cup {Obj(<< <<PruneKey, p>>, <<KeyA, c>> >>) : p \in PruneValues, c \in CondChildren}
    \cup {Arr(<<c>>) : c \in CondChildren}

InitCond ==
    /\ templates = <<>>
    /\ source = <<>>
    /\ newest = [name |-> <<>>, replaced |-> FALSE]
    /\ last = Op("new", <<>>, Undefined, Undefined, Undefined)
    /\ arg \in CondTrees
    /\ ret = NotCalled
    /\ middleware = <<>>
    /\ run = NoRun
    /\ log = <<>>

\* postProcess(postProcess(object)): the second call, on what the first returned.
PostProcessAgain ==
    /\ ret # NotCalled
    /\ ~IsThrow(ret)
    /\ last.op = "new"
    /\ last' = Op("postProcess", <<>>, ret, Undefined, postProcess(ret))
    /\ UNCHANGED <<templates, source, newest, arg, ret>>
    /\ UNCHANGED botVars

NextCond ==
    \/ PostProcess
    \/ PostProcessAgain

SpecCond == InitCond /\ [][NextCond]_vars


\* ------------------------------------------- renderAsJSON of a JSON template

\* {"@if":"a","@if":"y","a":1}: two @if keys, the first naming the member a, the second
\* a member the object does not have.
TIfTrueFalse ==
    <<"{", "\"", "@", "i", "f", "\"", ":", "\"", "a", "\"", ",", "\"", "@", "i", "f", "\"",
      ":", "\"", "y", "\"", ",", "\"", "a", "\"", ":", "1", "}">>

\* {"@if":"y","@if":"a","a":1}: the same two in the other order.
TIfFalseTrue ==
    <<"{", "\"", "@", "i", "f", "\"", ":", "\"", "y", "\"", ",", "\"", "@", "i", "f", "\"",
      ":", "\"", "a", "\"", ",", "\"", "a", "\"", ":", "1", "}">>

JSONTexts == {TEmbedded, TIfTrueFalse, TIfFalseTrue}

\* {x: 'a"b'} and {x: 'a\b'}: strings that hold a quote and a backslash.
DataQuote == Obj(<< <<KeyX, Str(<<"a", "\"", "b">>)>> >>)
DataBackslash == Obj(<< <<KeyX, Str(<<"a", "\\", "b">>)>> >>)

JSONData == {DataString, DataQuote, DataBackslash, DataNumber, DataEmpty}

NextJSON ==
    \/ \E name \in Names, text \in JSONTexts : Add(name, Str(text))
    \/ \E name \in Names, data \in JSONData, flag \in Flags : RenderAsJSON(name, data, flag)
    \/ Return

SpecJSON == Init /\ [][NextJSON]_vars

\* ---------------------------- a compiled template called with data and a path

\* Template texts with no expression in them: plain text, text with blanks around it, a
\* string with a $ and a !, a string with an escaped quote, a text that ends in a quote,
\* and the empty text.
LitPlain == <<"h", "i">>
LitPadded == <<" ", "h", "i", " ">>
LitDollar == <<"\"", "a", "$", "b", "!", "\"">>
LitEscaped == <<"\"", "a", "\\", "\"", "b", "\"">>
LitEndQuote == <<"a", "'">>

LitTexts == {LitPlain, LitPadded, LitDollar, LitEscaped, LitEndQuote, <<>>}

\* Templates given as values that are no text: the object {y: 1} and the number 5.
LitValues == {Obj(<< <<KeyY, Num(1)>> >>), Num(5)}

CallTemplates == {Str(t) : t \in LitTexts \cup {TEmbedded, TWhole}} \cup LitValues

\* What the member x of the data holds: arrays of 0 to 3 elements (objects, a number
\* and null among them), scalars, an object; or no member x, or no data.
CallArrays ==
    { Arr(<<>>), Arr(<<DataNumber>>), Arr(<<DataNumber, DataString, DataEmpty>>),
      Arr(<<Num(5), DataString>>), Arr(<<Null>>) }

CallValues == CallArrays \cup {Str(<<"h", "i">>), Num(5), Bool(TRUE), Null, DataNumber}

CallData == {Obj(<< <<KeyX, v>> >>) : v \in CallValues} \cup {DataEmpty, Undefined, Num(5)}

\* The path argument: none, the empty text, a member, a member nobody has.
CallPaths == {Undefined, Str(<<>>), Str(KeyX), Str(KeyY)}

\* The registry handed to compile: an empty object of the caller's.
EmptyRegistry == [ref |-> "copy", copy |-> <<>>]

InitCall ==
    /\ templates = <<>>
    /\ source = <<>>
    /\ newest = [name |-> <<>>, replaced |-> FALSE]
    /\ last = Op("new", <<>>, Undefined, Undefined, Undefined)
    /\ arg \in {[json |-> j, data |-> d, path |-> p] :
                  j \in CallTemplates, d \in CallData, p \in CallPaths}
    /\ ret = NotCalled
    /\ middleware = <<>>
    /\ run = NoRun
    /\ log = <<>>

\* JsonTemplates.compile(json, {})(data, path)
Call ==
    /\ ret = NotCalled
    /\ ret' = callEntry(compile(arg.json, EmptyRegistry), "undefined", arg.data, arg.path,
                        <<>>, MaxDepth)
    /\ UNCHANGED <<templates, source, newest, last, arg>>
    /\ UNCHANGED botVars

SpecCall == InitCall /\ [][Call]_vars

\* ---------------------------------- the caller's data across a render call

\* {x: {"@prune": {nullMembers: true, emptyArrays: true}, y: null}}: data with a
\* directive in it, which post-processing would act on.
DataDirective == Obj(<< <<KeyX, Obj(<< <<PruneKey, PruneNulls>>, <<KeyY, Null>> >>)>> >>)

EffectData == {DataDirective, DataObject, DataString, DataEmpty}

EffectTexts == {TWhole, TEmbedded, TIfTrueFalse}

\* render(name, data): arg is the data as the caller handed it, ret the objects after.
RenderData(name, data) ==
    /\ Ready
    /\ last' = Op("render", name, data, Undefined, render(templates, name, data))
    /\ arg' = data
    /\ ret' = renderEffect(templates, name, data)
    /\ UNCHANGED <<templates, source, newest>>
    /\ UNCHANGED botVars

RenderAsJSONData(name, data, flag) ==
    /\ Ready
    /\ last' = Op("renderAsJSON", name, data, flag, renderAsJSON(templates, name, data, flag))
    /\ arg' = data
    /\ ret' = renderAsJSONEffect(templates, name, data, flag)
    /\ UNCHANGED <<templates, source, newest>>
    /\ UNCHANGED botVars

NextData ==
    \/ \E name \in Names, text \in EffectTexts : Add(name, Str(text))
    \/ \E name \in Names, data \in EffectData : RenderData(name, data)
    \/ \E name \in Names, data \in EffectData, flag \in Flags : RenderAsJSONData(name, data, flag)
    \/ Return

SpecData == Init /\ [][NextData]_vars

\* ------------------------------------------------- parse, on path expressions
\* Templates that hold one path expression: a quoted string with ${...} in it, alone,
\* after a letter or after a backslash, and a whole-value expression "!...".  The
\* expression is put together from blanks, a name, ( , an args text and ) , each there
\* or not.

NameFn == <<"f", "n">>
ArgsAB == <<"a", ".", "b">>
KeyB == <<"b">>

ExpressionForms == {"alone", "after a letter", "after a backslash", "whole value"}

Expression(e) == e.lead \o e.name \o e.open \o e.args \o e.close \o e.trail

Expressions ==
    [lead : {<<>>, <<" ">>}, name : {<<>>, NameFn}, open : {<<>>, <<"(">>},
     args : {<<>>, KeyA, ArgsAB}, close : {<<>>, <<")">>}, trail : {<<>>, <<" ">>}]

\* The template text for an expression in a form.
ExpressionText(form, e) ==
    CASE form = "alone" -> <<"\"", "$", "{">> \o Expression(e) \o <<"}", "\"">>
      [] form = "after a letter" -> <<"\"", "a", "$", "{">> \o Expression(e) \o <<"}", "\"">>
      [] form = "after a backslash" -> <<"\"", "\\", "$", "{">> \o Expression(e) \o <<"}", "\"">>
      [] form = "whole value" -> <<"\"", "!">> \o Expression(e) \o <<"\"">>

\* {a: {b: 'hi'}} and {fn: 5}
DataAB == Obj(<< <<KeyA, Obj(<< <<KeyB, Str(<<"h", "i">>)>> >>)>> >>)
DataFn == Obj(<< <<NameFn, Num(5)>> >>)

\* The registry handed to compile: {fn: (data, args) => args}.
FnRegistry == [ref |-> "copy", copy |-> [n \in {NameFn} |-> Fn("echo")]]

InitParse ==
    /\ templates = <<>>
    /\ source = <<>>
    /\ newest = [name |-> <<>>, replaced |-> FALSE]
    /\ last = Op("new", <<>>, Undefined, Undefined, Undefined)
    /\ arg \in {[form |-> f, e |-> e, data |-> d] :
                  f \in ExpressionForms, e \in Expressions, d \in {DataAB, DataFn}}
    /\ ret = NotCalled
    /\ middleware = <<>>
    /\ run = NoRun
    /\ log = <<>>

\* parse(json, templates), and the compiled template called with the data.
Parse ==
    /\ ret = NotCalled
    /\ ret' = [parsed |-> parse(ExpressionText(arg.form, arg.e), FnRegistry),
               out |-> callEntry(compile(Str(ExpressionText(arg.form, arg.e)), FnRegistry),
                                 "undefined", arg.data, Undefined, <<>>, MaxDepth)]
    /\ UNCHANGED <<templates, source, newest, last, arg>>
    /\ UNCHANGED botVars

SpecParse == InitParse /\ [][Parse]_vars

\* ------------------------------------------------ processNode, on an array
MaxElements == 3

IfFails == Obj(<< <<IfKey, Str(KeyY)>>, <<KeyA, Num(1)>> >>)
IfHolds == Obj(<< <<IfKey, Str(KeyA)>>, <<KeyA, Num(1)>> >>)
PrunesItself == Obj(<< <<PruneKey, Obj(<< <<NullMembers, Bool(TRUE)>> >>)>>, <<KeyA, Null>> >>)

\* What an array holds: null, undefined, a number, the empty string, objects whose @if
\* fails and holds, an object with an @prune of its own, an empty array and an array of
\* one null.
Elements ==
    { Null, Undefined, Num(5), Str(<<>>), IfFails, IfHolds, PrunesItself,
      Arr(<<>>), Arr(<<Null>>) }

ElementLists == UNION { [1..n -> Elements] : n \in 0..MaxElements }

\* The options in force where the array is met.
PruneOptions ==
    { Obj(<<>>),
      Obj(<< <<NullMembers, Bool(TRUE)>> >>),
      Obj(<< <<EmptyArrays, Bool(TRUE)>> >>),
      Obj(<< <<NullMembers, Bool(TRUE)>>, <<EmptyArrays, Bool(TRUE)>> >>) }

InitArray ==
    /\ templates = <<>>
    /\ source = <<>>
    /\ newest = [name |-> <<>>, replaced |-> FALSE]
    /\ last = Op("new", <<>>, Undefined, Undefined, Undefined)
    /\ arg \in {[elements |-> es, prune |-> p] : es \in ElementLists, p \in PruneOptions}
    /\ ret = NotCalled
    /\ middleware = <<>>
    /\ run = NoRun
    /\ log = <<>>

\* processNode(node, prune) for the array node.
ProcessArray ==
    /\ ret = NotCalled
    /\ ret' = processNode(Arr(arg.elements), arg.prune)
    /\ UNCHANGED <<templates, source, newest, last, arg>>
    /\ UNCHANGED botVars

SpecArray == InitArray /\ [][ProcessArray]_vars

\* ------------------------------------- processNode, on trees with blank strings

\* The empty string, a string of one blank, a string that trim leaves a letter of, null
\* and a number.
StringLeaves == { Str(<<>>), Str(<<" ">>), Str(<<" ", "a">>), Null, Num(1) }

StringArrays ==
    {Arr(<<l>>) : l \in StringLeaves} \cup {Arr(<<Str(<<>>), l>>) : l \in StringLeaves}

\* What a member or an element of the root holds: a leaf, an array of leaves, an object
\* with a leaf or an array as its member, or an object with an @prune for nulls, a leaf
\* and an array of the empty string and null.
StringChildren ==
    StringLeaves \cup StringArrays
    \cup {Obj(<< <<KeyA, l>> >>) : l \in StringLeaves}
    \cup {Obj(<< <<KeyA, Arr(<<l>>)>> >>) : l \in StringLeaves}
    \cup {Obj(<< <<PruneKey, Obj(<< <<NullMembers, Bool(TRUE)>> >>)>>, <<KeyA, l>>,
                 <<KeyB, Arr(<<Str(<<>>), Null>>)>> >>) : l \in StringLeaves}

\* The root: two children as the members x and y of an object, with no @prune or with
\* one in front of them that sets emptyStrings, or as the elements of an array.
StringTrees ==
    {Obj(<< <<KeyX, c>>, <<KeyY, d>> >>) : c \in StringChildren, d \in StringChildren}
    \cup {Arr(<<c, d>>) : c \in StringChildren, d \in StringChildren}
    \cup {Obj(<< <<PruneKey, Obj(<< <<EmptyStrings, Bool(b)>> >>)>>, <<KeyX, c>>, <<KeyY, d>> >>) :
             b \in BOOLEAN, c \in StringChildren, d \in StringChildren}

\* The options in force where the root is met.
StringOptions ==
    { Obj(<<>>),
      Obj(<< <<EmptyStrings, Bool(TRUE)>> >>),
      Obj(<< <<EmptyStrings, Bool(TRUE)>>, <<NullMembers, Bool(TRUE)>> >>) }

InitStrings ==
    /\ templates = <<>>
    /\ source = <<>>
    /\ newest = [name |-> <<>>, replaced |-> FALSE]
    /\ last = Op("new", <<>>, Undefined, Undefined, Undefined)
    /\ arg \in {[node |-> n, prune |-> p] : n \in StringTrees, p \in StringOptions}
    /\ ret = NotCalled
    /\ middleware = <<>>
    /\ run = NoRun
    /\ log = <<>>

\* processNode(node, prune) for the root.
ProcessStrings ==
    /\ ret = NotCalled
    /\ ret' = processNode(arg.node, arg.prune)
    /\ UNCHANGED <<templates, source, newest, last, arg>>
    /\ UNCHANGED botVars

SpecStrings == InitStrings /\ [][ProcessStrings]_vars

\* ---------------------------------------------------------- MiddlewareSet
\* A plugin is an object with a handler for some of the three hooks.  What a handler
\* does with the next() it is passed is the plugin's choice: it calls it, or it returns
\* without.  A run is one call of contextCreated, receiveActivity or postActivity.

\* Plugins registered at most.
MaxPlugins == 3

Hooks == {"contextCreated", "receiveActivity", "postActivity"}

Plugin(id, handlers) == [id |-> id, handlers |-> handlers]

Plugins ==
    { Plugin("a", Hooks), Plugin("b", {"receiveActivity"}), Plugin("c", {}),
      Plugin("d", {"contextCreated", "postActivity"}) }

\* The arguments of one call of use(...middleware): one plugin or two.
UseArgs == {<<p>> : p \in Plugins} \cup {<<p, q>> : p \in Plugins, q \in Plugins}

\* use with the plugins put in front of those registered before.
useInFront(registered, plugins) == plugins \o registered

\* Array.prototype.push.apply(this._middleware, middleware)
use(registered, plugins) == registered \o plugins

\* What the environment sees of a set: calls of use, the start of a run, a handler
\* entered, a plugin calling its next(), a handler returning without, and the caller's
\* next() invoked.
UseEvent(plugins) == [e |-> "use", plugins |-> plugins, i |-> 0]
StartEvent(hook) == [e |-> hook, plugins |-> <<>>, i |-> 0]
HandlerEvent(i, plugin) == [e |-> "handler", plugins |-> <<plugin>>, i |-> i]
PluginNextEvent(i) == [e |-> "plugin.next", plugins |-> <<>>, i |-> i]
ReturnEvent(i) == [e |-> "return", plugins |-> <<>>, i |-> i]
NextEvent == [e |-> "next", plugins |-> <<>>, i |-> 0]

\* callMiddleware(set, i): the 0-based index of the plugin whose handler it calls, the
\* plugins without a handler for the hook passed over; set.length when it calls next().
RECURSIVE callMiddleware(_, _, _)
callMiddleware(set, i, hook) ==
    IF i < Len(set)
    THEN IF hook \in set[i + 1].handlers THEN i ELSE callMiddleware(set, i + 1, hook)
    ELSE Len(set)

\* The run and the events after callMiddleware(set, i): inside the handler of a plugin,
\* or the caller's next() invoked.
called(hook, set, i) ==
    LET j == callMiddleware(set, i, hook)
    IN  IF j < Len(set)
        THEN [run |-> [op |-> hook, set |-> set, i |-> j, at |-> "handler"],
              events |-> <<HandlerEvent(j, set[j + 1])>>]
        ELSE [run |-> [op |-> hook, set |-> set, i |-> j, at |-> "next"],
              events |-> <<NextEvent>>]

\* A handler returning without having called next(), the set going on to the plugin
\* after it all the same.
handlerReturnedGoOn(r) ==
    LET c == called(r.op, r.set, r.i + 1)
    IN  [run |-> c.run, events |-> <<ReturnEvent(r.i)>> \o c.events]

\* The handler of plugin r.i returns without having called next(): its return value is
\* the run's, and nothing else is called.
handlerReturned(r) ==
    [run |-> [r EXCEPT !.at = "returned"], events |-> <<ReturnEvent(r.i)>>]

\* A run that walks this._middleware itself: it sees what the set holds now.
inFlightShared(r, registered) ==
    IF r = [op |-> "none"] THEN r ELSE [r EXCEPT !.set = registered]

\* What becomes of a run in flight when this._middleware changes: nothing, the run
\* walks the copy that slice(0) made when it started.
inFlight(r, registered) == r

\* use(...middleware); also while a run is under way.
Use(plugins) ==
    /\ Len(middleware) + Len(plugins) <= MaxPlugins
    /\ middleware' = use(middleware, plugins)
    /\ log' = Append(log, UseEvent(plugins))
    /\ run' = inFlight(run, use(middleware, plugins))
    /\ UNCHANGED engineVars

\* removeAll(), before any run: the set is as new.
RemoveAll ==
    /\ run = NoRun
    /\ middleware # <<>>
    /\ middleware' = <<>>
    /\ log' = <<>>
    /\ UNCHANGED run
    /\ UNCHANGED engineVars

\* contextCreated(context, next): callMiddleware(this._middleware.slice(0), 0).
ContextCreated ==
    /\ run = NoRun
    /\ run' = called("contextCreated", middleware, 0).run
    /\ log' = Append(log, StartEvent("contextCreated")) \o called("contextCreated", middleware, 0).events
    /\ UNCHANGED middleware
    /\ UNCHANGED engineVars

\* receiveActivity(context, next)
ReceiveActivity ==
    /\ run = NoRun
    /\ run' = called("receiveActivity", middleware, 0).run
    /\ log' = Append(log, StartEvent("receiveActivity")) \o called("receiveActivity", middleware, 0).events
    /\ UNCHANGED middleware
    /\ UNCHANGED engineVars

\* postActivity(context, activities, next)
PostActivity ==
    /\ run = NoRun
    /\ run' = called("postActivity", middleware, 0).run
    /\ log' = Append(log, StartEvent("postActivity")) \o called("postActivity", middleware, 0).events
    /\ UNCHANGED middleware
    /\ UNCHANGED engineVars

\* The plugin whose handler is running calls the next() it was passed.
PluginCallsNext ==
    /\ run # NoRun
    /\ run.at = "handler"
    /\ run' = called(run.op, run.set, run.i + 1).run
    /\ log' = Append(log, PluginNextEvent(run.i)) \o called(run.op, run.set, run.i + 1).events
    /\ UNCHANGED middleware
    /\ UNCHANGED engineVars

\* The plugin whose handler is running returns without calling next().
PluginReturns ==
    /\ run # NoRun
    /\ run.at = "handler"
    /\ run' = handlerReturned(run).run
    /\ log' = log \o handlerReturned(run).events
    /\ UNCHANGED middleware
    /\ UNCHANGED engineVars

NextSet ==
    \/ \E plugins \in UseArgs : Use(plugins)
    \/ RemoveAll
    \/ ContextCreated
    \/ ReceiveActivity
    \/ PostActivity
    \/ PluginCallsNext
    \/ PluginReturns

SpecSet == Init /\ [][NextSet]_vars

\* ------------------------------------- MiddlewareSet, changed while a run is in flight
\* Runs one after another on a set that is added to and emptied also while a run is
\* under way, with plugins that may call the next() they were passed a second time once
\* the rest of the chain has returned to them.

MaxRuns == 2
MaxAgain == 1
MaxUses == 2

\* The calls of use since the set was new.
Uses == {k \in 1..Len(log) : log[k].e = "use"}

RemoveAllEvent == [e |-> "removeAll", plugins |-> <<>>, i |-> 0]
SettledEvent == [e |-> "settled", plugins |-> <<>>, i |-> 0]

Starts == {k \in 1..Len(log) : log[k].e \in Hooks}

\* The place in the log of the start of the run under way.
LastStart == CHOOSE k \in Starts : \A n \in Starts : k >= n

\* The calls of plugins' next() in the run under way.
NextCalls == {k \in (LastStart + 1)..Len(log) : log[k].e = "plugin.next"}

\* removeAll() while a run is under way.
RemoveAllInFlight ==
    /\ run # NoRun
    /\ \A k \in 1..Len(log) : log[k] # RemoveAllEvent
    /\ middleware' = <<>>
    /\ log' = Append(log, RemoveAllEvent)
    /\ run' = inFlight(run, <<>>)
    /\ UNCHANGED engineVars

\* Plugin j, which has called its next() and has the chain's result back, calls that
\* next() once more: callMiddleware(set, j + 1) again.
PluginCallsNextAgain(j) ==
    /\ run # NoRun
    /\ run.at \in {"returned", "next"}
    /\ \E k \in NextCalls : log[k].i = j
    /\ Cardinality(NextCalls) - Cardinality({log[k].i : k \in NextCalls}) < MaxAgain
    /\ run' = called(run.op, run.set, j + 1).run
    /\ log' = Append(log, PluginNextEvent(j)) \o called(run.op, run.set, j + 1).events
    /\ UNCHANGED middleware
    /\ UNCHANGED engineVars

\* The promise of the run has settled; another run may start.
RunSettles ==
    /\ run # NoRun
    /\ run.at \in {"returned", "next"}
    /\ Cardinality(Starts) < MaxRuns
    /\ run' = NoRun
    /\ log' = Append(log, SettledEvent)
    /\ UNCHANGED middleware
    /\ UNCHANGED engineVars

NextFlight ==
    \/ \E plugin \in Plugins : Cardinality(Uses) < MaxUses /\ Use(<<plugin>>)
    \/ RemoveAll
    \/ RemoveAllInFlight
    \/ ReceiveActivity
    \/ PluginCallsNext
    \/ PluginReturns
    \/ \E j \in 0..(MaxPlugins - 1) : PluginCallsNextAgain(j)
    \/ RunSettles

SpecFlight == Init /\ [][NextFlight]_vars

\* ------------------------------------------- BotFrameworkAdapter.sendActivities
\* One call of sendActivities: run holds the activities, the index i of next(i), the
\* responses pushed so far, the cached invoke response and what the call is waiting for
\* (a timer, the connector, or nothing more: resolved, rejected). log is the record of
\* what happened in the call.

MaxActivities == 3

Activity(type, value, serviceUrl, conversation, replyToId) ==
    [type |-> type, value |-> value, serviceUrl |-> serviceUrl,
     conversation |-> conversation, replyToId |-> replyToId]

\* A delay with a number as value and one without, an invokeResponse, a message, a reply,
\* and messages without serviceUrl and without conversation id.
Activities ==
    { Activity("delay", 500, FALSE, FALSE, FALSE),
      Activity("delay", -1, FALSE, FALSE, FALSE),
      Activity("invokeResponse", -1, FALSE, FALSE, FALSE),
      Activity("message", -1, TRUE, TRUE, FALSE),
      Activity("message", -1, TRUE, TRUE, TRUE),
      Activity("message", -1, FALSE, TRUE, FALSE),
      Activity("message", -1, TRUE, FALSE, FALSE) }

ActivityLists == UNION { [1..n -> Activities] : n \in 0..MaxActivities }

\* {} as ResourceResponse, and what the connector answers.
EmptyResponse == [id |-> ""]
ConnectorResponses == { [id |-> "m1"], [id |-> "m2"] }

StartedEvent(i) == [e |-> "started", i |-> i, ms |-> 0, response |-> EmptyResponse]
TimerSetEvent(i, ms) == [e |-> "setTimeout", i |-> i, ms |-> ms, response |-> EmptyResponse]
TimerFiredEvent(i) == [e |-> "timeout", i |-> i, ms |-> 0, response |-> EmptyResponse]
ConnectorCalledEvent(i, reply) ==
    [e |-> IF reply THEN "replyToActivity" ELSE "sendToConversation",
     i |-> i, ms |-> 0, response |-> EmptyResponse]
ConnectorRepliedEvent(i, response) == [e |-> "replied", i |-> i, ms |-> 0, response |-> response]
PushedEvent(i, response) == [e |-> "pushed", i |-> i, ms |-> 0, response |-> response]

Sending(activities, i, at, responses, invoke) ==
    [op |-> "sendActivities", activities |-> activities, i |-> i, at |-> at,
     responses |-> responses, invoke |-> invoke]

\* The switch with every delay handled as if its timer had already fired.
dispatchNoWait(activity) ==
    IF activity.type \in {"delay", "invokeResponse"} THEN "push"
    ELSE IF ~activity.serviceUrl THEN "throw"
    ELSE IF ~activity.conversation THEN "throw"
    ELSE "connector"

\* The switch without the two tests of the default case: every activity of another type
\* is handed to the connector.
dispatchNoValidation(activity) ==
    IF activity.type = "delay" THEN "timer"
    ELSE IF activity.type = "invokeResponse" THEN "push"
    ELSE "connector"

\* switch (activity.type): what next(i) does with the activity.
dispatch(activity) ==
    IF activity.type = "delay" THEN "timer"
    ELSE IF activity.type = "invokeResponse" THEN "push"
    ELSE IF ~activity.serviceUrl THEN "throw"
    ELSE IF ~activity.conversation THEN "throw"
    ELSE "connector"

\* typeof activity.value === 'number' ? activity.value : 1000
delayOf(activity) == IF activity.value >= 0 THEN activity.value ELSE 1000

\* next(i), up to the point where it returns to the event loop. invoke is the index of the
\* activity cached under INVOKE_RESPONSE_KEY, -1 for none.
RECURSIVE next(_, _, _, _)
next(activities, i, responses, invoke) ==
    IF i < Len(activities)
    THEN LET activity == activities[i + 1]
             todo == dispatch(activity)
         IN  IF todo = "timer"
             THEN [run |-> Sending(activities, i, "timer", responses, invoke),
                   events |-> <<StartedEvent(i), TimerSetEvent(i, delayOf(activity))>>]
             ELSE IF todo = "push"
             THEN [run |-> next(activities, i + 1, Append(responses, EmptyResponse), i).run,
                   events |-> <<StartedEvent(i), PushedEvent(i, EmptyResponse)>>
                              \o next(activities, i + 1, Append(responses, EmptyResponse), i).events]
             ELSE IF todo = "throw"
             THEN [run |-> Sending(activities, i, "rejected", responses, invoke),
                   events |-> <<StartedEvent(i)>>]
             ELSE [run |-> Sending(activities, i, "connector", responses, invoke),
                   events |-> <<StartedEvent(i), ConnectorCalledEvent(i, activity.replyToId)>>]
    ELSE [run |-> Sending(activities, i, "resolved", responses, invoke), events |-> <<>>]

\* sendActivities(context, activities): next(0).
SendActivities(activities) ==
    /\ run = NoRun
    /\ run' = next(activities, 0, <<>>, -1).run
    /\ log' = next(activities, 0, <<>>, -1).events
    /\ UNCHANGED <<engineVars, middleware>>

\* The callback of setTimeout: responses.push({}); next(i + 1).
TimerFires ==
    /\ run # NoRun
    /\ run.op = "sendActivities"
    /\ run.at = "timer"
    /\ run' = next(run.activities, run.i + 1, Append(run.responses, EmptyResponse), run.invoke).run
    /\ log' = log \o <<TimerFiredEvent(run.i), PushedEvent(run.i, EmptyResponse)>>
                  \o next(run.activities, run.i + 1, Append(run.responses, EmptyResponse), run.invoke).events
    /\ UNCHANGED <<engineVars, middleware>>

\* p.then((response) => { responses.push(response); next(i + 1); }, ...)
ConnectorResponds(response) ==
    /\ run # NoRun
    /\ run.op = "sendActivities"
    /\ run.at = "connector"
    /\ run' = next(run.activities, run.i + 1, Append(run.responses, response), run.invoke).run
    /\ log' = log \o <<ConnectorRepliedEvent(run.i, response), PushedEvent(run.i, response)>>
                  \o next(run.activities, run.i + 1, Append(run.responses, response), run.invoke).events
    /\ UNCHANGED <<engineVars, middleware>>

\* p.then(..., (err) => reject(err))
ConnectorFails ==
    /\ run # NoRun
    /\ run.op = "sendActivities"
    /\ run.at = "connector"
    /\ run' = [run EXCEPT !.at = "rejected"]
    /\ UNCHANGED <<engineVars, middleware, log>>

\* The caller has taken the outcome of the promise.
SendSettled ==
    /\ run # NoRun
    /\ run.op = "sendActivities"
    /\ run.at \in {"resolved", "rejected"}
    /\ run' = NoRun
    /\ log' = <<>>
    /\ UNCHANGED <<engineVars, middleware>>

NextSend ==
    \/ \E activities \in ActivityLists : SendActivities(activities)
    \/ TimerFires
    \/ \E response \in ConnectorResponses : ConnectorResponds(response)
    \/ ConnectorFails
    \/ SendSettled

SpecSend == Init /\ [][NextSend]_vars

\* ------------------------------------------ BotFrameworkAdapter.processActivity
\* One call of processActivity: run holds errorCode, the request once parsed, what was
\* sent on res (status 0: nothing yet), the stage the call is in or failed in, the error
\* of that failure and the reason the returned promise rejected with. log is the record
\* of the calls the adapter made.

TypeKey == <<"t", "y", "p", "e">>
ValueKey == <<"v", "a", "l", "u", "e">>
Message == <<"m", "e", "s", "s", "a", "g", "e">>
Invoke == <<"i", "n", "v", "o", "k", "e">>

\* new Error(message), and the errors the runtime throws.
ErrorValue(message) == [t |-> "error", v |-> <<message>>]

\* req.body as a body parser left it: nothing, activities, an object without type, an
\* object whose type is no string, a text.
Bodies ==
    { Undefined,
      Obj(<< <<TypeKey, Str(Message)>> >>),
      Obj(<< <<TypeKey, Str(Invoke)>> >>),
      Obj(<<>>),
      Obj(<< <<TypeKey, Num(1)>> >>),
      Str(<<"h", "i">>) }

MaxChunks == 3

\* What the request stream delivers, in pieces: {"type":" and message"} or invoke"},
\* null, { and }.
Chunks ==
    { <<"{", "\"">> \o TypeKey \o <<"\"", ":", "\"">>,
      Message \o <<"\"", "}">>,
      Invoke \o <<"\"", "}">>,
      <<"n", "u", "l", "l">>,
      <<"{">>,
      <<"}">> }

\* req.headers["authorization"]
AuthHeaders == { Undefined, Str(<<"B", "e", "a", "r", "e", "r">>) }

\* What authenticateRequest rejects with.
AuthErrors == { ErrorValue("Unauthorized") }

\* What the promise of runMiddleware rejects with: what a plugin or the logic threw or
\* rejected with, an Error, a string, or nothing (Promise.reject(), throw null).
LogicErrors == { ErrorValue("logic"), Str(<<"b", "o", "o", "m">>), Undefined, Null }

\* What context.services holds under INVOKE_RESPONSE_KEY when the middleware is through:
\* nothing, an activity without value, an activity with value {status: 200}.
StatusKey == <<"s", "t", "a", "t", "u", "s">>
BodyKey == <<"b", "o", "d", "y">>
InvokeValue == Obj(<< <<StatusKey, Num(200)>> >>)
InvokeResponses ==
    { Undefined,
      Obj(<< <<TypeKey, Str(<<"i", "n", "v", "o", "k", "e", "R", "e", "s", "p", "o", "n", "s", "e">>)>> >>),
      Obj(<< <<TypeKey, Str(<<"i", "n", "v", "o", "k", "e", "R", "e", "s", "p", "o", "n", "s", "e">>)>>,
             <<ValueKey, InvokeValue>> >>) }

\* res: the status and body last sent, and the calls made on it, in order.
NothingSent == [status |-> 0, body |-> Undefined, calls |-> <<>>]

\* res.send(status, body); res.end();
sendAndEnd(res, status, body) ==
    [status |-> status, body |-> body, calls |-> res.calls \o <<"send", "end">>]

ParseRequestEvent == [e |-> "parseRequest", header |-> Undefined]
AuthenticateRequestEvent(header) == [e |-> "authenticateRequest", header |-> header]
AuthenticatedEvent == [e |-> "authenticated", header |-> Undefined]
RunMiddlewareEvent == [e |-> "runMiddleware", header |-> Undefined]

Processing(header) ==
    [op |-> "processActivity", at |-> "parseRequest", errorCode |-> 500, header |-> header,
     chunks |-> 0, requestData |-> <<>>, request |-> Undefined, res |-> NothingSent,
     error |-> Undefined, reason |-> Undefined]

\* err.toString()
toString(err) ==
    IF err.t \in {"undefined", "null"} THEN Throw("TypeError")
    ELSE IF err.t = "error" THEN Str(<<"Error: ">> \o err.v)
    ELSE err

\* The handler of .catch: warn, res.send(errorCode, err.toString()), res.end(), throw err.
catchHandler(r, stage, err) ==
    IF IsThrow(toString(err))
    THEN [r EXCEPT !.at = stage, !.error = err, !.reason = ErrorValue(toString(err).v)]
    ELSE [r EXCEPT !.at = stage, !.error = err, !.reason = err,
                   !.res = sendAndEnd(r.res, r.errorCode, toString(err))]

\* returnActivity(activity): the activity, or what it throws.
returnActivity(activity) ==
    IF ~TypeofObject(activity) THEN Throw("invalid request body")
    ELSE IF IsThrow(Member(activity, TypeKey)) THEN Member(activity, TypeKey)
    ELSE IF Member(activity, TypeKey).t # "string" THEN Throw("missing activity type")
    ELSE activity

\* parseRequest settled with activity (or what was thrown): on an activity the first
\* then-callback sets errorCode = 401 and calls authenticateRequest.
parsed(r, activity) ==
    IF IsThrow(activity)
    THEN [run |-> catchHandler(r, "parseRequest failed", ErrorValue(activity.v)),
          events |-> <<>>]
    ELSE [run |-> [r EXCEPT !.at = "authenticateRequest", !.errorCode = 401,
                            !.request = activity],
          events |-> << AuthenticateRequestEvent(IF Falsy(r.header) THEN Str(<<>>)
                                                 ELSE r.header) >>]

\* A rejection of authenticateRequest taken as if it had resolved.
authenticationFailedGoOn(r, err) ==
    [run |-> [r EXCEPT !.at = "runMiddleware", !.errorCode = 500],
     events |-> <<RunMiddlewareEvent>>]

\* authenticateRequest rejected: the then-callback is skipped, .catch takes the error.
authenticationFailed(r, err) ==
    [run |-> catchHandler(r, "authenticateRequest failed", err), events |-> <<>>]

\* processActivity(req, res, logic): errorCode = 500, parseRequest(req) with a body that
\* is there, or listening to the stream.
ProcessActivity(body, header) ==
    /\ run = NoRun
    /\ IF Falsy(body)
       THEN /\ run' = [Processing(header) EXCEPT !.at = "req.on"]
            /\ log' = <<ParseRequestEvent>>
       ELSE /\ run' = parsed(Processing(header), returnActivity(body)).run
            /\ log' = <<ParseRequestEvent>> \o parsed(Processing(header), returnActivity(body)).events
    /\ UNCHANGED <<engineVars, middleware>>

\* req.on('data'): requestData += chunk.
RequestData(chunk) ==
    /\ run # NoRun
    /\ run.op = "processActivity"
    /\ run.at = "req.on"
    /\ run.chunks < MaxChunks
    /\ run' = [run EXCEPT !.chunks = @ + 1, !.requestData = @ \o chunk]
    /\ UNCHANGED <<engineVars, middleware, log>>

\* req.on('end'): req.body = JSON.parse(requestData); returnActivity(req.body).
RequestEnds ==
    /\ run # NoRun
    /\ run.op = "processActivity"
    /\ run.at = "req.on"
    /\ IF IsThrow(JSONparse(run.requestData))
       THEN /\ run' = parsed(run, JSONparse(run.requestData)).run
            /\ log' = log
       ELSE /\ run' = parsed(run, returnActivity(JSONparse(run.requestData))).run
            /\ log' = log \o parsed(run, returnActivity(JSONparse(run.requestData))).events
    /\ UNCHANGED <<engineVars, middleware>>

\* authenticateRequest resolved: errorCode = 500, createContext, runMiddleware.
Authenticated ==
    /\ run # NoRun
    /\ run.op = "processActivity"
    /\ run.at = "authenticateRequest"
    /\ run' = [run EXCEPT !.at = "runMiddleware", !.errorCode = 500]
    /\ log' = log \o <<AuthenticatedEvent, RunMiddlewareEvent>>
    /\ UNCHANGED <<engineVars, middleware>>

AuthenticationFails(err) ==
    /\ run # NoRun
    /\ run.op = "processActivity"
    /\ run.at = "authenticateRequest"
    /\ run' = authenticationFailed(run, err).run
    /\ log' = log \o authenticationFailed(run, err).events
    /\ UNCHANGED <<engineVars, middleware>>

\* runMiddleware resolved: the invoke response for an invoke, 202 for the rest.
MiddlewareResolves(invokeResponse) ==
    /\ run # NoRun
    /\ run.op = "processActivity"
    /\ run.at = "runMiddleware"
    /\ run' = IF Member(run.request, TypeKey) = Str(Invoke)
              THEN IF ~Falsy(invokeResponse) /\ ~Falsy(Member(invokeResponse, ValueKey))
                   THEN [run EXCEPT !.at = "resolved",
                            !.res = sendAndEnd(run.res,
                                              Member(Member(invokeResponse, ValueKey), StatusKey).v,
                                              Member(Member(invokeResponse, ValueKey), BodyKey))]
                   ELSE catchHandler(run, "response failed", ErrorValue("no invokeResponse"))
              ELSE [run EXCEPT !.at = "resolved", !.res = sendAndEnd(run.res, 202, Undefined)]
    /\ UNCHANGED <<engineVars, middleware, log>>

\* runMiddleware rejected: a plugin or the logic failed.
MiddlewareFails(err) ==
    /\ run # NoRun
    /\ run.op = "processActivity"
    /\ run.at = "runMiddleware"
    /\ run' = catchHandler(run, "runMiddleware failed", err)
    /\ UNCHANGED <<engineVars, middleware, log>>

\* The caller has taken the outcome of the promise.
ProcessSettled ==
    /\ run # NoRun
    /\ run.op = "processActivity"
    /\ run.at \in {"resolved", "parseRequest failed", "authenticateRequest failed",
                   "runMiddleware failed", "response failed"}
    /\ run' = NoRun
    /\ log' = <<>>
    /\ UNCHANGED <<engineVars, middleware>>

NextProcess ==
    \/ \E body \in Bodies, header \in AuthHeaders : ProcessActivity(body, header)
    \/ \E chunk \in Chunks : RequestData(chunk)
    \/ RequestEnds
    \/ Authenticated
    \/ \E err \in AuthErrors : AuthenticationFails(err)
    \/ \E invokeResponse \in InvokeResponses : MiddlewareResolves(invokeResponse)
    \/ \E err \in LogicErrors : MiddlewareFails(err)
    \/ ProcessSettled

SpecProcess == Init /\ [][NextProcess]_vars

\* ------------------------------- processActivity, with the turn's invoke responses
\* While runMiddleware is under way the logic sends invokeResponse activities: the
\* invokeResponse case of sendActivities stores each under INVOKE_RESPONSE_KEY in
\* context.services, and processActivity reads the entry once runMiddleware resolved.

MaxInvokeResponses == 2

InvokeResponseType ==
    Str(<<"i", "n", "v", "o", "k", "e", "R", "e", "s", "p", "o", "n", "s", "e">>)

\* invokeResponse activities: without value, with {status: 200}, with {status: 404,
\* body: 'no'}.
InvokeResponseActivities ==
    { Obj(<< <<TypeKey, InvokeResponseType>> >>),
      Obj(<< <<TypeKey, InvokeResponseType>>, <<ValueKey, InvokeValue>> >>),
      Obj(<< <<TypeKey, InvokeResponseType>>,
             <<ValueKey, Obj(<< <<StatusKey, Num(404)>>, <<BodyKey, Str(<<"n", "o">>)>> >>)>> >>) }

ServicesSetEvent(activity) == [e |-> "services.set", header |-> activity]

\* The places in the log of the calls of context.services.set.
ServicesSets == {k \in 1..Len(log) : log[k].e = "services.set"}

\* The entry read as the one stored first.
servicesGetFirst ==
    IF ServicesSets = {} THEN Undefined
    ELSE log[CHOOSE k \in ServicesSets : \A n \in ServicesSets : k <= n].header

\* context.services.get(INVOKE_RESPONSE_KEY): what the last set stored, undefined
\* without one.
servicesGet ==
    IF ServicesSets = {} THEN Undefined
    ELSE log[CHOOSE k \in ServicesSets : \A n \in ServicesSets : k >= n].header

\* sendActivities meets an invokeResponse activity during the turn:
\* context.services.set(INVOKE_RESPONSE_KEY, activity).
SendInvokeResponse(activity) ==
    /\ run # NoRun
    /\ run.op = "processActivity"
    /\ run.at = "runMiddleware"
    /\ Cardinality(ServicesSets) < MaxInvokeResponses
    /\ log' = Append(log, ServicesSetEvent(activity))
    /\ UNCHANGED <<engineVars, middleware, run>>

\* runMiddleware resolved, with what the turn left in context.services.
TurnResolves == MiddlewareResolves(servicesGet)

NextTurn ==
    \/ \E body \in Bodies, header \in AuthHeaders : ProcessActivity(body, header)
    \/ \E chunk \in Chunks : RequestData(chunk)
    \/ RequestEnds
    \/ Authenticated
    \/ \E err \in AuthErrors : AuthenticationFails(err)
    \/ \E activity \in InvokeResponseActivities : SendInvokeResponse(activity)
    \/ TurnResolves
    \/ \E err \in LogicErrors : MiddlewareFails(err)
    \/ ProcessSettled

SpecTurn == Init /\ [][NextTurn]_vars

\* ------------------------------------------------------------------ BotService
\* contextCreated of a BotService(name, instance) on a context object.  The module
\* declares and imports no TraceLevel: the identifier resolves only if the host has a
\* global of that name.

NameSvc == <<"s", "v", "c">>
NameOther == <<"o", "t", "h", "e", "r">>
LoggerKey == <<"l", "o", "g", "g", "e", "r">>

\* Context objects: with or without a logger, with or without own properties of the
\* two names (one of them holding undefined).
Contexts ==
    { Obj(logger \o svc \o other) :
        logger \in {<<>>, << <<LoggerKey, Fn("logger")>> >>},
        svc \in {<<>>, << <<NameSvc, Num(1)>> >>, << <<NameSvc, Undefined>> >>},
        other \in {<<>>, << <<NameOther, Str(<<"h", "i">>)>> >>} }

Instances == {Num(5), Obj(<<>>), Undefined}

\* getService(context): this.instance.
getService(instance, context) == instance

\* contextCreated(context, next): the context as the call leaves it, what it threw if
\* it did, the warnings logged and the calls of next().
contextCreated(context, name, instance, traceLevel) ==
    LET done(warnings) ==
            [context |-> Obj(SetMember(context.v, name, getService(instance, context))),
             threw |-> "", warnings |-> warnings, nexts |-> 1]
    IN  IF HasOwn(context, name)
        THEN IF IsNullish(Member(context, LoggerKey))
             THEN [context |-> context, threw |-> "TypeError", warnings |-> 0, nexts |-> 0]
             ELSE IF ~traceLevel
             THEN [context |-> context, threw |-> "ReferenceError", warnings |-> 0, nexts |-> 0]
             ELSE done(1)
        ELSE done(0)

InitService ==
    /\ templates = <<>>
    /\ source = <<>>
    /\ newest = [name |-> <<>>, replaced |-> FALSE]
    /\ last = Op("new", <<>>, Undefined, Undefined, Undefined)
    /\ arg \in {[context |-> c, name |-> n, instance |-> i, traceLevel |-> g] :
                  c \in Contexts, n \in {NameSvc, NameOther}, i \in Instances,
                  g \in BOOLEAN}
    /\ ret = NotCalled
    /\ middleware = <<>>
    /\ run = NoRun
    /\ log = <<>>

\* new BotService(name, instance).contextCreated(context, next)
ServiceContextCreated ==
    /\ ret = NotCalled
    /\ ret' = contextCreated(arg.context, arg.name, arg.instance, arg.traceLevel)
    /\ UNCHANGED <<templates, source, newest, last, arg>>
    /\ UNCHANGED botVars

SpecService == InitService /\ [][ServiceContextCreated]_vars

\* ================================================================= claims

\* What a template shows for a resolved value: a string as it is, nothing for
\* undefined or null, the JSON text of anything else.
Shown(value) ==
    IF value.t = "string" THEN value.v
    ELSE IF value.t \in {"undefined", "null"} THEN <<>>
    ELSE StringifyText(value)

\* The member of an object stored under key, undefined if it has none.
OwnValue(o, key) == IF HasOwn(o, key) THEN o.v[OwnIndex(o, key)][2] ELSE Undefined

\* The last call was render of a name registered with the template text.
RenderedText(text) ==
    /\ last.op = "render"
    /\ last.name \in DOMAIN source
    /\ source[last.name] = Str(text)

TextYIs1 == <<"{", "\"", "y", "\"", ":", "1", "}">>

TextAIs(shown) == <<"{", "\"", "a", "\"", ":", "\"">> \o shown \o <<"\"", "}">>

\* C2: the template {"a":"${x}"} renders, between the quotes of the string, the value
\* found at x: a string as it is, nothing for undefined or null, JSON text otherwise;
\* {"a":"5"} for the data {x: 5}.
C2_EmbeddedRendersValue ==
    RenderedText(TEmbedded) =>
        /\ last.result = Str(TextAIs(Shown(OwnValue(last.data, KeyX))))
        /\ last.data = DataNumber => last.result = Str(TextAIs(<<"5">>))
        /\ last.data \in {DataNull, DataEmpty} => last.result = Str(TextAIs(<<>>))

C2_Witness ==
    RenderedText(TEmbedded) /\ last.data = DataNumber /\ last.result = Str(TextAIs(<<"5">>))

\* C3 as stated: getValue(data, path) never raises, whatever the data and the path.
C3_GetValueNeverThrows == ret # NotCalled => ~IsThrow(ret)

\* What calling the entry now stored under name gives a function-call fragment with
\* empty args, one call deep in a render.
CalledNow(name, data) ==
    LET result == callEntry(Lookup(templates, name), "templates", data, Str(<<>>),
                            templates, MaxDepth - 1)
    IN  IF IsThrow(result) \/ result.t = "string" THEN result ELSE JSONstringify(result)

\* C4: a render of the template '!f()' gives what the entry stored under f at the time
\* of the render gives, whether f was registered before or after the template was added.
C4_LateBinding == RenderedText(TCall) => last.result = CalledNow(NameF, last.data)

\* f was registered again after the template under e-t was added, and the render of
\* e-t shows what the new f returns.
C4_Witness ==
    /\ RenderedText(TCall)
    /\ last.name = NameT
    /\ newest = [name |-> NameF, replaced |-> TRUE]
    /\ source[NameF] = Fn("seven")
    /\ last.result = Str(<<"7">>)

\* C5: the registry holds, under each name given to add, the compiled form of the text
\* add last received under it, and render(name) runs that compiled template: never
\* one an earlier add stored.
C5_RenderUsesLatestAdd ==
    /\ \A n \in DOMAIN source :
          source[n].t = "string" => templates[n] = Compiled(parse(source[n].v, TemplatesRef))
    /\ (last.op = "render" /\ last.name \in DOMAIN source /\ source[last.name].t = "string") =>
          last.result = compiledFn(parse(source[last.name].v, TemplatesRef), last.data,
                                   Undefined, templates, MaxDepth - 1)

\* The name was added again, over an entry, and then rendered.
C5_Witness ==
    /\ RenderedText(TWhole)
    /\ newest = [name |-> last.name, replaced |-> TRUE]
    /\ last.data = DataString
    /\ last.result = Str(<<"h", "i">>)

\* C6 as stated: render of a name never given to add or addFunction returns undefined.
C6_UnknownNameUndefined ==
    (last.op = "render" /\ last.name \notin DOMAIN source) => last.result = Undefined

\* The last call was renderAsJSON and rendering gave no text: undefined or ''.
RenderedNoText ==
    /\ last.op = "renderAsJSON"
    /\ render(templates, last.name, last.data) \in {Undefined, Str(<<>>)}

C8_MissingFunctionThrows ==
    /\ (RenderedText(TCall) /\ NameF \notin DOMAIN source) => IsThrow(last.result)
    /\ RenderedText(TCallInherited) => IsThrow(last.result)

\* The options in force after an @prune with the given value, under inherited ones.
MergedConfig(inherited, value) == ObjectAssign(ObjectAssign(Obj(<<>>), inherited), value)

NoConfig == Obj(<<>>)

\* The members a call of processNode leaves of the given ones, run as an object of
\* their own under the config.
Pruned(ms, config) == processNode(Obj(ms), config).node.v

\* The members without the one under key.
Without(ms, key) == SelectSeq(ms, LAMBDA m : m[1] # key)

RootHasPrune == ret # NotCalled /\ arg.t = "object" /\ HasOwn(arg, PruneKey)

PruneAt == OwnIndex(arg, PruneKey)

\* C9 as stated: every member of an object carrying @prune, before or after the
\* @prune key, is pruned under the merged config.
C9_AllMembersUnderMerged ==
    RootHasPrune =>
        ret = Obj(Pruned(Without(arg.v, PruneKey), MergedConfig(NoConfig, arg.v[PruneAt][2])))

\* The config the k-th member of the root is reached with.
ConfigAt(k) ==
    IF HasOwn(arg, PruneKey) /\ PruneAt < k
    THEN MergedConfig(NoConfig, arg.v[PruneAt][2]) ELSE NoConfig

\* The k-th member of the root is an object with an @prune of its own.
ChildHasPrune(k) ==
    /\ arg.v[k][1] # PruneKey
    /\ arg.v[k][2].t = "object"
    /\ HasOwn(arg.v[k][2], PruneKey)

\* What is left of an object with an @prune that is reached with the config: the
\* members before the @prune pruned under the config, those after it under the merge
\* of the @prune value over the config.
SplitAtPrune(o, config) ==
    LET j == OwnIndex(o, PruneKey)
    IN  Obj(Pruned(SubSeq(o.v, 1, j - 1), config)
            \o Pruned(SubSeq(o.v, j + 1, Len(o.v)), MergedConfig(config, o.v[j][2])))

\* C9 amended: the members that follow the @prune key, and everything below them, are
\* pruned under the merge of the @prune value over the inherited config; those before
\* it under the inherited config.  Stated of the root, which inherits no option, and
\* of a member of the root, which inherits what the root's @prune set before it.
C9_MembersAfterUnderMerged ==
    /\ RootHasPrune => ret = SplitAtPrune(arg, NoConfig)
    /\ (ret # NotCalled /\ arg.t = "object") =>
          \A k \in 1..Len(arg.v) :
             ChildHasPrune(k) =>
                OwnValue(ret, arg.v[k][1]) = SplitAtPrune(arg.v[k][2], ConfigAt(k))

\* The null before the @prune stays, the null below the member after it goes.
C9_Witness ==
    /\ arg = Obj(<< <<KeyX, Null>>, <<PruneKey, PruneNulls>>, <<KeyY, Obj(<< <<KeyA, Null>> >>)>> >>)
    /\ ret = Obj(<< <<KeyX, Null>>, <<KeyY, Obj(<<>>)>> >>)

RECURSIVE EachMemberAlone(_)
EachMemberAlone(k) ==
    IF k > Len(arg.v) THEN <<>>
    ELSE (IF arg.v[k][1] = PruneKey THEN <<>> ELSE Pruned(<<arg.v[k]>>, ConfigAt(k)))
         \o EachMemberAlone(k + 1)

RECURSIVE EachElementAlone(_)
EachElementAlone(k) ==
    IF k > Len(arg.v) THEN <<>>
    ELSE processNode(Arr(<<arg.v[k]>>), NoConfig).node.v \o EachElementAlone(k + 1)

\* C10: a member of an object, or an element of an array, is pruned as it would be with
\* no sibling beside it: an @prune inside one sibling changes nothing for the others.
C10_SiblingsIndependent ==
    /\ (ret # NotCalled /\ arg.t = "object") => ret = Obj(EachMemberAlone(1))
    /\ (ret # NotCalled /\ arg.t = "array") => ret = Arr(EachElementAlone(1))

\* The null of y stays though x, beside it, set nullMembers for itself.
C10_Witness ==
    /\ arg = Obj(<< <<KeyX, Obj(<< <<PruneKey, PruneNulls>>, <<KeyA, Null>> >>)>>,
                    <<KeyY, Obj(<< <<KeyA, Null>> >>)>> >>)
    /\ ret = Obj(<< <<KeyX, Obj(<<>>)>>, <<KeyY, Obj(<< <<KeyA, Null>> >>)>> >>)

\* What pruning leaves of the root's members, the directive keys aside: each member
\* run under the config it is reached with.
RECURSIVE MembersPruned(_)
MembersPruned(k) ==
    IF k > Len(arg.v) THEN <<>>
    ELSE (IF arg.v[k][1] \in {PruneKey, IfKey} THEN <<>> ELSE Pruned(<<arg.v[k]>>, ConfigAt(k)))
         \o MembersPruned(k + 1)

RootHasIf == ret # NotCalled /\ arg.t = "object" /\ HasOwn(arg, IfKey)

\* The root's member x is removed by the pruning of the root's level.
XRemoved == HasOwn(arg, KeyX) /\ Pruned(<<arg.v[OwnIndex(arg, KeyX)]>>, ConfigAt(OwnIndex(arg, KeyX))) = <<>>

\* C11: an @if is evaluated after the object's other members were pruned, against the
\* object as pruned: an object whose @if names a member that pruning removed fails,
\* with the @if before or after that member; in general the object survives, as pruned,
\* exactly when the path resolves truthy in the pruned object.
C11_ConditionsSeePrunedNode ==
    /\ (RootHasIf /\ OwnValue(arg, IfKey) = Str(KeyX) /\ XRemoved) => ret = Undefined
    /\ (RootHasIf /\ ~IsThrow(ret)) =>
          ret = IF Falsy(getValue(Obj(MembersPruned(1)), OwnValue(arg, IfKey).v))
                THEN Undefined ELSE Obj(MembersPruned(1))

\* The @if comes before x, whose empty array is truthy until emptyArrays removes it.
C11_Witness ==
    /\ arg = Obj(<< <<PruneKey, PruneNulls>>, <<IfKey, Str(KeyX)>>, <<KeyX, Arr(<<>>)>> >>)
    /\ ret = Undefined

\* The last call was renderAsJSON, with post-processing on, of a name registered with
\* the template text.
PostProcessedJSON(text) ==
    /\ last.op = "renderAsJSON"
    /\ last.flag # Bool(FALSE)
    /\ last.name \in DOMAIN source
    /\ source[last.name] = Str(text)

\* C12 as stated: a node declared with two @if conditions, one resolving truthy (a) and
\* one resolving falsy (y), is pruned in both declaration orders: renderAsJSON returns
\* undefined for the root.
C12_TwoConditionsBothOrders ==
    /\ PostProcessedJSON(TIfTrueFalse) => last.result = Undefined
    /\ PostProcessedJSON(TIfFalseTrue) => last.result = Undefined

\* C13: postProcess is idempotent: a second application to what the first returned
\* (a pruned tree, or undefined for a failing root) returns the same.
C13_PostProcessIdempotent ==
    last.op = "postProcess" => (last.data = ret /\ last.result = ret)

\* The first application removed the null element and the directive keys of the other.
C13_Witness ==
    /\ arg = Obj(<< <<PruneKey, PruneNulls>>,
                    <<KeyA, Arr(<<Obj(<< <<IfKey, Str(KeyX)>>, <<KeyX, Num(1)>> >>), Null>>)>> >>)
    /\ ret = Obj(<< <<KeyA, Arr(<<Obj(<< <<KeyX, Num(1)>> >>)>>)>> >>)
    /\ last.op = "postProcess"
    /\ last.result = ret

\* Whether an object with the key @prune or @if is anywhere in the value.
RECURSIVE HasDirective(_)
HasDirective(x) ==
    CASE x.t = "object" ->
            \E k \in 1..Len(x.v) : x.v[k][1] \in {PruneKey, IfKey} \/ HasDirective(x.v[k][2])
      [] x.t = "array" -> \E k \in 1..Len(x.v) : HasDirective(x.v[k])
      [] OTHER -> FALSE

\* C14: after postProcess returns a value, no object of the returned tree has a key
\* @prune or @if.
C14_DirectivesStripped ==
    (ret # NotCalled /\ ~IsThrow(ret)) => ~HasDirective(ret)

\* An object inside an array, two levels down, came back without its two directive keys.
C14_Witness ==
    /\ arg = Obj(<< <<KeyA, Arr(<<Obj(<< <<PruneKey, KeepNulls>>, <<IfKey, Str(KeyX)>>,
                                          <<KeyX, Num(1)>> >>)>>)>> >>)
    /\ ret = Obj(<< <<KeyA, Arr(<<Obj(<< <<KeyX, Num(1)>> >>)>>)>> >>)

\* Every element is filtered out under the config: a null one under nullMembers, or
\* one whose own post-processing fails.
AllFiltered(es, config) ==
    \A k \in 1..Len(es) :
       \/ Option(config, NullMembers) /\ IsNullish(es[k])
       \/ ~processNode(es[k], config).ok

\* The root's member a holds a non-empty array that filtering empties while emptyArrays
\* is in force.
ArrayEmptied ==
    /\ ret # NotCalled /\ ~IsThrow(ret)
    /\ arg.t = "object" /\ ~HasOwn(arg, IfKey) /\ HasOwn(arg, KeyA)
    /\ OwnValue(arg, KeyA).t = "array"
    /\ Len(OwnValue(arg, KeyA).v) > 0
    /\ Option(ConfigAt(OwnIndex(arg, KeyA)), EmptyArrays)
    /\ AllFiltered(OwnValue(arg, KeyA).v, ConfigAt(OwnIndex(arg, KeyA)))

\* C15: under an active emptyArrays, an object member whose array becomes empty only
\* after its elements are filtered is removed from its parent, never left as [].
C15_EmptiedArrayRemoved ==
    ArrayEmptied => (ret.t = "object" /\ ~HasOwn(ret, KeyA))

\* The one element fails its @if, and the array goes with it.
C15_Witness ==
    /\ arg = Obj(<< <<PruneKey, PruneNulls>>,
                    <<KeyA, Arr(<<Obj(<< <<IfKey, Str(KeyY)>>, <<KeyX, Num(1)>> >>)>>)>> >>)
    /\ ret = Obj(<<>>)

\* C16 as stated: postProcess never raises: for a tree whose @if values are path strings
\* it returns the pruned tree, or undefined for a failing root, also when the path of a
\* condition runs through a null or missing member.
C16_PostProcessNeverThrows ==
    ret # NotCalled => ~IsThrow(ret)

\* The text a template given as json is compiled from.
TextForm(json) == IF json.t = "string" THEN json.v ELSE StringifyText(json)

\* The member x of an element, as a path x finds it: undefined in what is no object.
ElemX(el) == IF el.t = "object" THEN OwnValue(el, KeyX) ELSE Undefined

\* What the fragments of the template put out against one element, concatenated: the
\* text of a template without expressions, and the text around and the value shown for
\* the two templates with the expression x.
Segment(json, el) ==
    IF json = Str(TEmbedded)
    THEN <<"{", "\"", "a", "\"", ":", "\"">> \o Shown(ElemX(el)) \o <<"\"", "}">>
    ELSE IF json = Str(TWhole) THEN Shown(ElemX(el))
    ELSE TextForm(json)

RECURSIVE Joined(_, _, _)
Joined(json, es, k) ==
    IF k > Len(es) THEN <<>>
    ELSE (IF k > 1 THEN <<",">> ELSE <<>>) \o Segment(json, es[k]) \o Joined(json, es, k + 1)

\* The call was made with the path x, and x of the data is found and has the type.
CalledWithX(types) ==
    /\ ret # NotCalled
    /\ arg.path = Str(KeyX)
    /\ arg.data.t = "object"
    /\ OwnValue(arg.data, KeyX).t \in types

\* C17: called with a path that resolves to a sequence of n elements, a compiled template
\* returns [ then n segments joined by , then ], segment i being the fragment outputs
\* against element i concatenated, in element order; [] for n = 0.  (Where a fragment
\* raises against an element there is no output to concatenate.)
C17_SequenceBracketed ==
    (CalledWithX({"array"}) /\ ~IsThrow(ret)) =>
        ret = Str(<<"[">> \o Joined(arg.json, OwnValue(arg.data, KeyX).v, 1) \o <<"]">>)

\* Three elements: [{"a":"5"},{"a":"hi"},{"a":""}]
C17_Witness ==
    /\ arg = [json |-> Str(TEmbedded), path |-> Str(KeyX),
              data |-> Obj(<< <<KeyX, Arr(<<DataNumber, DataString, DataEmpty>>)>> >>)]
    /\ ret = Str(
        <<"[", "{", "\"", "a", "\"", ":", "\"", "5", "\"", "}", ",", "{", "\"", "a", "\"",
          ":", "\"", "h", "i", "\"", "}", ",", "{", "\"", "a", "\"", ":", "\"", "\"", "}",
          "]">>)

\* C18 as stated: called with a non-empty path that resolves to a scalar (string, number,
\* boolean, null) or to undefined, a compiled template returns the empty text, no
\* fragment having been evaluated.
C18_ScalarGivesEmptyText ==
    CalledWithX({"string", "number", "boolean", "null", "undefined"}) => ret = Str(<<>>)

\* The template has no expression in it.
NoExpression == arg.json \in {Str(t) : t \in LitTexts} \cup LitValues

\* C19: a template with no embedded expression renders, for every data argument, to
\* exactly its literal text; one given as a value that is no text, to its JSON text.
C19_LiteralRendersItself ==
    (ret # NotCalled /\ NoExpression /\ Falsy(arg.path)) => ret = Str(TextForm(arg.json))

\* The object {y: 1} as a template, rendered with no data: {"y":1}
C19_Witness ==
    /\ arg = [json |-> Obj(<< <<KeyY, Num(1)>> >>), data |-> Undefined, path |-> Undefined]
    /\ ret = Str(TextYIs1)

\* The last call was renderAsJSON(name, data, false) of a name registered with the
\* template {"a":"${x}"}, the x of the data being a string.
SubstitutedString ==
    /\ last.op = "renderAsJSON"
    /\ last.flag = Bool(FALSE)
    /\ last.name \in DOMAIN source
    /\ source[last.name] = Str(TEmbedded)
    /\ OwnValue(last.data, KeyX).t = "string"

\* C20 as stated: renderAsJSON(name, data, false) of the template {"a":"${x}"} is the
\* object {a: data.x} for every string data.x, a quote or a backslash in it included.
C20_DirectSubstitution ==
    SubstitutedString => last.result = Obj(<< <<KeyA, OwnValue(last.data, KeyX)>> >>)

\* C21: rendering never mutates the caller's data: after render or renderAsJSON, with or
\* without post-processing, of compiled templates, the data is what it was before.
C21_DataUntouched ==
    arg # NotCalled => ret.data = arg

\* The tree rendered from the data's x was post-processed to {} (its @prune and its null
\* y removed), and the data still holds both.
C21_Witness ==
    /\ last.op = "renderAsJSON"
    /\ arg = DataDirective
    /\ ret.parsed = Obj(<<>>)
    /\ last.result = Obj(<<>>)
    /\ ret.data = DataDirective

\* The place in the log of the start of the run.
StartAt == CHOOSE k \in 1..Len(log) : log[k].e \in Hooks

\* The plugins the calls of use among the first k events registered, in order.
RECURSIVE UsedBefore(_)
UsedBefore(k) ==
    IF k = 0 THEN <<>>
    ELSE UsedBefore(k - 1) \o (IF log[k].e = "use" THEN log[k].plugins ELSE <<>>)

\* Before event k of the run, plugin j had its handler entered and then called next().
EnteredAndPassed(j, k) ==
    \E a \in (StartAt + 1)..(k - 1), b \in (StartAt + 1)..(k - 1) :
       /\ a < b
       /\ log[a] = HandlerEvent(j, run.set[j + 1])
       /\ log[b] = PluginNextEvent(j)

\* C22: a run goes through the plugins in the order use() registered them: the handler of
\* a plugin is entered only after every plugin before it that has a handler for the hook
\* was entered and called its next(), and the caller's next() is invoked only after
\* every plugin with a handler did.
C22_PluginsInRegistrationOrder ==
    run # NoRun =>
       /\ run.set = UsedBefore(StartAt - 1)
       /\ \A k \in (StartAt + 1)..Len(log) :
             /\ log[k].e = "handler" =>
                   /\ log[k].plugins = <<run.set[log[k].i + 1]>>
                   /\ run.op \in run.set[log[k].i + 1].handlers
                   /\ \A j \in 0..(log[k].i - 1) :
                         run.op \in run.set[j + 1].handlers => EnteredAndPassed(j, k)
             /\ log[k].e = "next" =>
                   \A j \in 0..(Len(run.set) - 1) :
                      run.op \in run.set[j + 1].handlers => EnteredAndPassed(j, k)

\* receiveActivity through a, c and b, registered by two calls of use: a and b have a
\* handler and called next(), c has none, and the caller's next() was invoked.
C22_Witness ==
    /\ run # NoRun
    /\ run.op = "receiveActivity"
    /\ run.at = "next"
    /\ log = << UseEvent(<<Plugin("a", Hooks), Plugin("c", {})>>),
                UseEvent(<<Plugin("b", {"receiveActivity"})>>),
                StartEvent("receiveActivity"),
                HandlerEvent(0, Plugin("a", Hooks)), PluginNextEvent(0),
                HandlerEvent(2, Plugin("b", {"receiveActivity"})), PluginNextEvent(2),
                NextEvent >>

\* C23: a plugin that returns without calling its next() intercepts the run: no plugin
\* after it is entered, and the caller's next() is not invoked in that run.
C23_NoNextIntercepts ==
    \A k \in 1..Len(log) :
       log[k].e = "return" =>
          /\ \A n \in 1..Len(log) : log[n].e # "next"
          /\ \A n \in 1..Len(log) : log[n].e = "handler" => log[n].i <= log[k].i
          /\ \A n \in (k + 1)..Len(log) : log[n].e = "use"

\* a passed the activity on, b did not: the a registered after b was never entered.
C23_Witness ==
    /\ run # NoRun
    /\ run.at = "returned"
    /\ run.set = <<Plugin("a", Hooks), Plugin("b", {"receiveActivity"}), Plugin("a", Hooks)>>
    /\ log[Len(log)] = ReturnEvent(1)

\* Before event k of the call, event ev was recorded.
Earlier(ev, k) == \E n \in 1..(k - 1) : log[n] = ev

\* C24: sendActivities takes the activities one after another in list order: activity
\* i+1 is started only after the response of activity i was pushed, the response of a
\* delay only after its timer fired and that of a sent activity only after the connector
\* answered; and a resolved call has one response per activity, response i being {} for
\* a delay or an invokeResponse and the connector's answer for activity i otherwise.
C24_SentInOrder ==
    (run # NoRun /\ run.op = "sendActivities") =>
       /\ \A k \in 1..Len(log) :
             /\ log[k].e = "started" =>
                   /\ \A n \in 1..(k - 1) : log[n].e = "started" => log[n].i < log[k].i
                   /\ \A j \in 0..(log[k].i - 1) :
                         \E n \in 1..(k - 1) : log[n].e = "pushed" /\ log[n].i = j
             /\ log[k].e = "pushed" =>
                   /\ Earlier(StartedEvent(log[k].i), k)
                   /\ run.activities[log[k].i + 1].type = "delay" =>
                         /\ Earlier(TimerSetEvent(log[k].i, delayOf(run.activities[log[k].i + 1])), k)
                         /\ Earlier(TimerFiredEvent(log[k].i), k)
                   /\ run.activities[log[k].i + 1].type = "message" =>
                         Earlier(ConnectorRepliedEvent(log[k].i, log[k].response), k)
       /\ run.at = "resolved" =>
             /\ Len(run.responses) = Len(run.activities)
             /\ \A i \in 1..Len(run.activities) :
                   /\ Earlier(PushedEvent(i - 1, run.responses[i]), Len(log) + 1)
                   /\ run.activities[i].type \in {"delay", "invokeResponse"} =>
                         run.responses[i] = EmptyResponse

\* A message, a delay and a reply, all sent: the two answers of the connector are at
\* their places around the {} of the delay.
C24_Witness ==
    /\ run # NoRun
    /\ run.op = "sendActivities"
    /\ run.at = "resolved"
    /\ run.activities = << Activity("message", -1, TRUE, TRUE, FALSE),
                           Activity("delay", 500, FALSE, FALSE, FALSE),
                           Activity("message", -1, TRUE, TRUE, TRUE) >>
    /\ run.responses = << [id |-> "m2"], EmptyResponse, [id |-> "m1"] >>

\* The stage of processActivity the call failed in, for a call that failed.
FailedIn(stage) == run # NoRun /\ run.op = "processActivity" /\ run.at = stage

\* C25: a call of processActivity that failed has sent the status of the stage it failed
\* in, 500 for parseRequest, 401 for authenticateRequest, 500 for runMiddleware, and its
\* promise has rejected with the error of that failure.
C25_FailureStatus ==
    /\ FailedIn("parseRequest failed") => (run.res.status = 500 /\ run.reason = run.error)
    /\ FailedIn("authenticateRequest failed") => (run.res.status = 401 /\ run.reason = run.error)
    /\ FailedIn("runMiddleware failed") => (run.res.status = 500 /\ run.reason = run.error)

\* C26: runMiddleware is entered only after authenticateRequest has resolved, and a call
\* whose authentication failed never enters it.
C26_MiddlewareOnlyAuthenticated ==
    (run # NoRun /\ run.op = "processActivity") =>
       /\ \A k \in 1..Len(log) :
             log[k] = RunMiddlewareEvent =>
                /\ k > 1
                /\ log[k - 1] = AuthenticatedEvent
                /\ \E n \in 1..(k - 1) : log[n].e = "authenticateRequest"
       /\ run.at = "authenticateRequest failed" =>
             \A k \in 1..Len(log) : log[k] # RunMiddlewareEvent
       /\ run.at \in {"runMiddleware", "runMiddleware failed", "response failed", "resolved"} =>
             \E k \in 1..Len(log) : log[k] = AuthenticatedEvent

\* The activity came from the stream in two pieces and was parsed, authenticateRequest
\* was called and rejected: 401 went out and the middleware was not run.
C26_Witness ==
    /\ FailedIn("authenticateRequest failed")
    /\ run.chunks = 2
    /\ run.request = Obj(<< <<TypeKey, Str(Message)>> >>)
    /\ run.res.status = 401
    /\ Len(log) = 2
    /\ log[2] = AuthenticateRequestEvent(Str(<<>>))

\* The fragments parse pushed that are no text.
Expressed == SelectSeq(ret.parsed, LAMBDA f : f.kind # "text")

\* C27: a ${ right after a backslash is literal text: parse pushes no property and no
\* function-call fragment for it.
C27_EscapedDollarIsLiteral ==
    (ret # NotCalled /\ arg.form = "after a backslash") => Expressed = <<>>

\* C28: a closed path expression is pushed as a function-call fragment if its trimmed
\* text ends in ) and it holds a ( , and as a property fragment otherwise.
C28_FunctionOnlyWithParentheses ==
    (ret # NotCalled /\ arg.form # "after a backslash") =>
       /\ Len(Expressed) = 1
       /\ Expressed[1].kind = "function" <=>
             /\ Trim(Expression(arg.e)) # <<>>
             /\ Trim(Expression(arg.e))[Len(Trim(Expression(arg.e)))] = ")"
             /\ IndexOf(Expression(arg.e), "(") >= 0

\* C29: name and args of a function call are cut from the trimmed expression: for
\* name(args) with blanks around it the fragment holds the name and the args text as
\* written, and calling the template gives what the registry's entry of that name
\* returns for the args text.
C29_NameAndArgsFromTrimmed ==
    (/\ ret # NotCalled
     /\ arg.form \in {"alone", "whole value"}
     /\ arg.e.name = NameFn /\ arg.e.open # <<>> /\ arg.e.close # <<>>) =>
       /\ Len(Expressed) = 1
       /\ Expressed[1].kind = "function"
       /\ Expressed[1].text = NameFn
       /\ Expressed[1].args = arg.e.args
       /\ ret.out = Str((IF arg.form = "alone" THEN <<"\"">> ELSE <<>>) \o arg.e.args
                        \o (IF arg.form = "alone" THEN <<"\"">> ELSE <<>>))

\* The element is one the array branch removes under the options.
Removed(element, prune) ==
    \/ Option(prune, NullMembers) /\ IsNullish(element)
    \/ ~processNode(element, prune).ok

\* The elements that stay, each as its own processing leaves it, in their order.
RECURSIVE Survivors(_, _)
Survivors(es, prune) ==
    IF es = <<>> THEN <<>>
    ELSE (IF Removed(Head(es), prune) THEN <<>> ELSE <<processNode(Head(es), prune).node>>)
         \o Survivors(Tail(es), prune)

\* C30: processNode on an array leaves exactly the elements that are neither
\* null/undefined under nullMembers nor fail their own processing, each processed, in
\* their original order; it fails itself only for an array left empty under
\* emptyArrays.
C30_ArrayKeepsSurvivorsInOrder ==
    ret # NotCalled =>
       /\ ~ret.threw
       /\ ret.node = Arr(Survivors(arg.elements, arg.prune))
       /\ ret.ok <=> ~(Option(arg.prune, EmptyArrays) /\ Survivors(arg.elements, arg.prune) = <<>>)

\* Of an object whose @if holds, an object whose @if fails and a 5, the first and the
\* last stay, the object without its @if.
C30_Witness ==
    /\ ret # NotCalled
    /\ arg.elements = <<IfHolds, IfFails, Num(5)>>
    /\ Option(arg.prune, NullMembers)
    /\ ret.node = Arr(<< Obj(<< <<KeyA, Num(1)>> >>), Num(5) >>)

\* The request of the call is an invoke activity.
IsInvoke == Member(run.request, TypeKey) = Str(Invoke)

\* The invokeResponse activities the turn sent, in the order sent.
SentInvokeResponses == SelectSeq(log, LAMBDA ev : ev.e = "services.set")

\* The value of the invokeResponse sent last, undefined without one.
LastValue ==
    IF SentInvokeResponses = <<>> THEN Undefined
    ELSE Member(SentInvokeResponses[Len(SentInvokeResponses)].header, ValueKey)

\* C31: nothing is sent while the middleware and the logic run; once they completed, an
\* invoke activity is answered with the status and body of the value of the
\* invokeResponse sent last, or with 500 if none was sent or the last one has no value,
\* and every other activity with 202.
C31_InvokeAnswered ==
    (run # NoRun /\ run.op = "processActivity") =>
       /\ run.at = "runMiddleware" => run.res = NothingSent
       /\ (run.at = "resolved" /\ IsInvoke) =>
             /\ ~Falsy(LastValue)
             /\ run.res.status = Member(LastValue, StatusKey).v
             /\ run.res.body = Member(LastValue, BodyKey)
       /\ (run.at = "response failed") =>
             /\ IsInvoke
             /\ Falsy(LastValue)
             /\ run.res.status = 500
       /\ (run.at = "resolved" /\ ~IsInvoke) => run.res.status = 202

\* An invoke whose turn sent {status: 200} and then {status: 404, body: 'no'}: 404 and
\* 'no' went out.
C31_Witness ==
    /\ run # NoRun
    /\ run.op = "processActivity"
    /\ run.at = "resolved"
    /\ IsInvoke
    /\ Len(SentInvokeResponses) = 2
    /\ Member(SentInvokeResponses[1].header, ValueKey) = InvokeValue
    /\ run.res.status = 404
    /\ run.res.body = Str(<<"n", "o">>)

\* C36: a call of processActivity that has settled has called res.send once and
\* res.end once, after it.
C36_OneStatusOneEnd ==
    (/\ run # NoRun
     /\ run.op = "processActivity"
     /\ run.at \in {"resolved", "parseRequest failed", "authenticateRequest failed",
                    "runMiddleware failed", "response failed"}) =>
       run.res.calls = <<"send", "end">>

\* C32: contextCreated of a BotService leaves context[name] holding the service and
\* has called next() once; where the context had an own property of that name it has
\* logged one warning as well.
C32_ServiceSetNextOnce ==
    ret # NotCalled =>
       /\ ret.threw = ""
       /\ HasOwn(ret.context, arg.name)
       /\ Member(ret.context, arg.name) = arg.instance
       /\ ret.nexts = 1
       /\ ret.warnings = (IF HasOwn(arg.context, arg.name) THEN 1 ELSE 0)

\* What this._middleware holds after the first k events.
RECURSIVE RegisteredAt(_)
RegisteredAt(k) ==
    IF k = 0 THEN <<>>
    ELSE IF log[k].e = "use" THEN RegisteredAt(k - 1) \o log[k].plugins
    ELSE IF log[k].e = "removeAll" THEN <<>>
    ELSE RegisteredAt(k - 1)

\* C33: the run under way invokes the plugins the set held when the run started, in
\* those places, whatever use() and removeAll() did to the set since; the set itself
\* holds what they made of it, which is what the next run starts from.
C33_RunWalksSnapshot ==
    /\ middleware = RegisteredAt(Len(log))
    /\ run # NoRun =>
          /\ run.set = RegisteredAt(LastStart - 1)
          /\ \A k \in (LastStart + 1)..Len(log) :
                /\ log[k].e = "handler" =>
                      /\ log[k].i < Len(RegisteredAt(LastStart - 1))
                      /\ log[k].plugins = <<RegisteredAt(LastStart - 1)[log[k].i + 1]>>
                /\ log[k].e = "next" =>
                      \A j \in 1..Len(RegisteredAt(LastStart - 1)) :
                         run.op \in RegisteredAt(LastStart - 1)[j].handlers =>
                            \E n \in (LastStart + 1)..(k - 1) :
                               log[n] = HandlerEvent(j - 1, RegisteredAt(LastStart - 1)[j])

\* A first run on the plugin a alone, during which the set was emptied and given b: that
\* run went on through a to the caller's next(); the run after it enters b.
C33_Witness ==
    /\ run # NoRun
    /\ run.set = <<Plugin("b", {"receiveActivity"})>>
    /\ run.at = "handler"
    /\ log = << UseEvent(<<Plugin("a", Hooks)>>),
                StartEvent("receiveActivity"),
                HandlerEvent(0, Plugin("a", Hooks)),
                RemoveAllEvent,
                UseEvent(<<Plugin("b", {"receiveActivity"})>>),
                PluginNextEvent(0),
                NextEvent,
                SettledEvent,
                StartEvent("receiveActivity"),
                HandlerEvent(0, Plugin("b", {"receiveActivity"})) >>

\* C34: in one run each plugin's handler is entered at most once and the caller's
\* next() is invoked at most once.
C34_AtMostOnce ==
    run # NoRun =>
       \A k \in (LastStart + 1)..Len(log), n \in (LastStart + 1)..Len(log) :
          (/\ k < n
           /\ log[k].e \in {"handler", "next"}
           /\ log[k].e = log[n].e) => log[k].i # log[n].i

\* An activity that is for the connector and lacks its serviceUrl or its conversation id.
Unsendable(activity) ==
    /\ activity.type \notin {"delay", "invokeResponse"}
    /\ ~activity.serviceUrl \/ ~activity.conversation

\* The activities the call has handed to the connector so far.
Handed == {log[k].i : k \in {n \in 1..Len(log) : log[n].e \in {"replyToActivity", "sendToConversation"}}}

\* C35: an unsendable activity is never handed to the connector, and the call is
\* rejected when its turn comes; a call is rejected at the activity i it was working
\* on, which is unsendable or had its connector call fail; then nothing after i was
\* started, and every activity before i was dealt with and has its response recorded,
\* the sendable ones having been handed to the connector.  While the call is under way
\* no activity after the one being worked on has been looked at.
C35_FailureStopsTheRest ==
    (run # NoRun /\ run.op = "sendActivities") =>
       /\ \A k \in 1..Len(log) : log[k].i <= run.i
       /\ \A j \in Handed : ~Unsendable(run.activities[j + 1])
       /\ \A k \in 1..Len(log) :
             (log[k].e = "started" /\ Unsendable(run.activities[log[k].i + 1])) =>
                (run.at = "rejected" /\ run.i = log[k].i)
       /\ run.at = "rejected" =>
             /\ run.i < Len(run.activities)
             /\ Unsendable(run.activities[run.i + 1]) \/ run.i \in Handed
             /\ Len(run.responses) = run.i
             /\ \A j \in 0..(run.i - 1) :
                   /\ \E k \in 1..Len(log) : log[k].e = "pushed" /\ log[k].i = j
                   /\ run.activities[j + 1].type \notin {"delay", "invokeResponse"} => j \in Handed

\* A message sent and answered, then a message without serviceUrl: the call is rejected
\* at the second, the first response is recorded, the third activity was never started.
C35_Witness ==
    /\ run # NoRun
    /\ run.op = "sendActivities"
    /\ run.at = "rejected"
    /\ run.i = 1
    /\ run.activities = << Activity("message", -1, TRUE, TRUE, FALSE),
                           Activity("message", -1, FALSE, TRUE, FALSE),
                           Activity("message", -1, TRUE, TRUE, FALSE) >>
    /\ run.responses = << [id |-> "m1"] >>
    /\ log = << StartedEvent(0), ConnectorCalledEvent(0, FALSE),
                ConnectorRepliedEvent(0, [id |-> "m1"]), PushedEvent(0, [id |-> "m1"]),
                StartedEvent(1) >>

\* A string that is empty or holds blanks only.
IsBlank(value) == value.t = "string" /\ \A i \in 1..Len(value.v) : value.v[i] = " "

\* The blank strings in a tree that are members of an object (where = "object") or
\* elements of an array (where = "array"), at any depth.
RECURSIVE Blanks(_, _), BlanksOf(_, _, _)
BlanksOf(values, here, where) ==
    IF values = <<>> THEN 0
    ELSE (IF here /\ IsBlank(Head(values)) THEN 1 ELSE 0)
         + Blanks(Head(values), where) + BlanksOf(Tail(values), here, where)

Blanks(node, where) ==
    IF node.t = "array" THEN BlanksOf(node.v, where = "array", where)
    ELSE IF node.t = "object"
    THEN BlanksOf([i \in 1..Len(node.v) |-> node.v[i][2]], where = "object", where)
    ELSE 0

\* emptyStrings as it is in force for the members of the root and below: what an
\* @prune in front of them sets, else what the root inherited.
EmptyStringsInForce ==
    IF arg.node.t = "object" /\ HasOwn(Member(arg.node, PruneKey), EmptyStrings)
    THEN Option(Member(arg.node, PruneKey), EmptyStrings)
    ELSE Option(arg.prune, EmptyStrings)

\* C37: with emptyStrings in force no member of an object of the processed tree holds
\* a blank string, and without it every such member is still there; in both cases the
\* arrays of the tree hold as many blank strings as before.
C37_EmptyStringsPrunesMembersOnly ==
    ret # NotCalled =>
       /\ ~ret.threw
       /\ ret.ok
       /\ Blanks(ret.node, "array") = Blanks(arg.node, "array")
       /\ EmptyStringsInForce => Blanks(ret.node, "object") = 0
       /\ ~EmptyStringsInForce => Blanks(ret.node, "object") = Blanks(arg.node, "object")

\* An object whose @prune sets emptyStrings, with a blank member and an array of two
\* blank strings: the member is gone, the array is as it was.
C37_Witness ==
    /\ arg.node = Obj(<< <<PruneKey, Obj(<< <<EmptyStrings, Bool(TRUE)>> >>)>>,
                         <<KeyX, Str(<<" ">>)>>,
                         <<KeyY, Arr(<<Str(<<>>), Str(<<" ">>)>>)>> >>)
    /\ arg.prune = Obj(<<>>)
    /\ ret # NotCalled
    /\ ret.ok
    /\ ret.node = Obj(<< <<KeyY, Arr(<<Str(<<>>), Str(<<" ">>)>>)>> >>)

====
